---- MODULE Spec2Model ----
(***************************************************************************)
(* Session / message concurrency core of the Heron Wellnest chat-bot API.  *)
(*                                                                         *)
(* The store (PostgreSQL through TypeORM) holds chat_sessions and          *)
(* chat_messages.  Request handlers run concurrently; every `await` on the *)
(* store or on Pub/Sub is one atomic step of a handler, and handlers       *)
(* interleave freely between steps.  The bot worker is an external         *)
(* process that consumes CHAT_MESSAGE_CREATED events.                      *)
(***************************************************************************)
EXTENDS Integers, Sequences, FiniteSets, Bags, TLC

(***************************************************************************)
(* Bounds of the model.                                                    *)
(***************************************************************************)
MaxSessions == 2
MaxMessages == 3
MaxCalls == 3
MaxOverlaps == 1
MaxVersion == 4
MaxLimit == 2
MaxTime == 2

(* default value of the maxRetries parameter of the mark* methods *)
maxRetries == 3

(* page size of the message history: default and maximum *)
defaultLimit == 10
maxLimit == 50

Users == {"u1", "u2"}
Procs == {"p1", "p2"}

Statuses == {"active", "ended", "waiting_for_bot", "escalated", "failed"}

(* variant: an ended session still counts as in progress *)
InProgress_WithEnded == {"active", "waiting_for_bot", "failed", "ended"}

(* statuses covered by the partial unique index idx_one_active_session_per_user *)
InProgress == {"active", "waiting_for_bot", "failed"}

Terminal == {"ended", "escalated"}

(* variant: an ended session may be made active again *)
ALLOWED_TRANSITIONS_Reopen ==
  [ active          |-> {"waiting_for_bot", "ended", "escalated"},
    waiting_for_bot |-> {"active", "ended", "escalated", "failed"},
    failed          |-> {"active", "ended", "escalated"},
    escalated       |-> {},
    ended           |-> {"active"} ]

ALLOWED_TRANSITIONS ==
  [ active          |-> {"ended", "waiting_for_bot", "escalated"},
    waiting_for_bot |-> {"active", "ended", "escalated", "failed"},
    failed          |-> {"active", "ended", "escalated"},
    escalated       |-> {},
    ended           |-> {} ]

(* variant: a session that waits for the bot still accepts messages *)
BLOCKED_STATUSES_NoWaiting == {"ended", "escalated", "failed"}

BLOCKED_STATUSES == {"waiting_for_bot", "ended", "escalated", "failed"}

(* variant: every blocked status is reported with the fallback error *)
BlockedErrorCode_Generic(status) == "SESSION_NOT_ACTIVE"

(* the status-specific error of createNewMessage (the switch on session.status) *)
BlockedErrorCode(status) ==
  CASE status = "waiting_for_bot" -> "SESSION_WAITING_FOR_BOT"
    [] status = "ended"           -> "SESSION_ENDED"
    [] status = "escalated"       -> "SESSION_ESCALATED"
    [] status = "failed"          -> "SESSION_FAILED"
    [] OTHER                      -> "SESSION_NOT_ACTIVE"

VARIABLES
  sessions,      \* chat_sessions rows in creation order; session_id = index
  messages,      \* chat_messages rows in creation order; message_id = index
  published,     \* bag of the CHAT_MESSAGE_CREATED events handed to Pub/Sub so far
  pending,       \* published events the bot worker has not handled yet
  proc,          \* per request handler: the call in flight and its position
  res,           \* per request handler: the outcome of its last completed call
  justDone,      \* the handler whose call completed in the last step, or "none"
  calls,         \* number of calls started so far
  overlaps,      \* number of calls started while another call was in flight
  everFailed,    \* sessions that have been in status failed at some time
  uniqueSessionSequence,  \* the store has the constraint unique_session_sequence
  optimisticLockOnSave    \* Repository.save compares the version column

vars == << sessions, messages, published, pending, proc, res, justDone, calls, overlaps,
           everFailed, uniqueSessionSequence, optimisticLockOnSave >>

schema == << uniqueSessionSequence, optimisticLockOnSave >>

budget == << calls, overlaps >>

Max(S) == CHOOSE x \in S : \A y \in S : y <= x

(***************************************************************************)
(* ChatSessionRepository                                                   *)
(***************************************************************************)

(* variant: the session is looked up by its id alone *)
findSessionById_AnyOwner(session_id, userId) ==
  IF session_id \in DOMAIN sessions THEN session_id ELSE 0

(* 0 stands for null *)
findSessionById(session_id, userId) ==
  IF session_id \in DOMAIN sessions /\ sessions[session_id].user_id = userId
    THEN session_id ELSE 0

(* variant: the most recently created session of the user, whatever its status *)
findLatestUserSession_AnyStatus(userId) ==
  LET S == { i \in DOMAIN sessions : sessions[i].user_id = userId }
  IN IF S = {} THEN 0 ELSE Max(S)

(* variant: the most recently created in-progress session, whoever owns it *)
findLatestUserSession_AnyUser(userId) ==
  LET S == { i \in DOMAIN sessions : sessions[i].status \in InProgress }
  IN IF S = {} THEN 0 ELSE Max(S)

(* created_at DESC: the most recently created in-progress session of the user *)
findLatestUserSession(userId) ==
  LET S == { i \in DOMAIN sessions :
               sessions[i].user_id = userId /\ sessions[i].status \in InProgress }
  IN IF S = {} THEN 0 ELSE Max(S)

(* variant: the table has no partial unique index *)
ViolatesActiveSessionIndex_NoIndex(self, userId, status) == FALSE

(* idx_one_active_session_per_user: would row `self` (0 for a new row) of the
   user, holding `status`, collide with another in-progress row of that user? *)
ViolatesActiveSessionIndex(self, userId, status) ==
  /\ status \in InProgress
  /\ \E j \in DOMAIN sessions :
       j # self /\ sessions[j].user_id = userId /\ sessions[j].status \in InProgress

(* the row repo.create({user_id}) + save produces: column defaults *)
NewSession(userId) == [ user_id |-> userId, status |-> "active", version |-> 1 ]

(***************************************************************************)
(* ChatMessageRepository                                                   *)
(***************************************************************************)

MessagesOf(user_id, session_id) ==
  { m \in DOMAIN messages :
      messages[m].user_id = user_id /\ messages[m].session_id = session_id }

(* created_at DESC among the rows that are not soft-deleted; 0 stands for null *)
findLatestMessageBySession(user_id, session_id) ==
  LET S == { m \in MessagesOf(user_id, session_id) : ~messages[m].is_deleted }
  IN IF S = {} THEN 0 ELSE Max(S)

findLatestUserMessageBySession(user_id, session_id) ==
  LET S == { m \in MessagesOf(user_id, session_id) :
               messages[m].role = "student" /\ ~messages[m].is_deleted }
  IN IF S = {} THEN 0 ELSE Max(S)

findLatestBotMessageBySession(user_id, session_id) ==
  LET S == { m \in MessagesOf(user_id, session_id) :
               messages[m].role = "bot" /\ ~messages[m].is_deleted }
  IN IF S = {} THEN 0 ELSE Max(S)

(* where {session_id, message_id, user_id}: neither role nor is_deleted is tested *)
findMessageById(session_id, message_id, user_id) ==
  IF message_id \in MessagesOf(user_id, session_id) THEN message_id ELSE 0

(* the constraint unique_session_sequence on (session_id, sequence_number) *)
ViolatesUniqueSessionSequence(session_id, sequence_number) ==
  /\ uniqueSessionSequence
  /\ \E m \in DOMAIN messages :
       messages[m].session_id = session_id /\ messages[m].sequence_number = sequence_number

(* the row repo.create({...}) + save produces *)
NewMessage(user_id, session_id, role, sequence_number) ==
  [ session_id |-> session_id, user_id |-> user_id, role |-> role,
    sequence_number |-> sequence_number, is_deleted |-> FALSE,
    created_at |-> Len(messages) + 1 ]

(* mostRecentMessage ? mostRecentMessage.sequence_number + 1 : 0 *)
NextSequenceNumber(mostRecentMessage) ==
  IF mostRecentMessage # 0 THEN messages[mostRecentMessage].sequence_number + 1 ELSE 0

(***************************************************************************)
(* Request handlers                                                        *)
(***************************************************************************)

NoEnt == [ status |-> "-", version |-> 0 ]

Idle == [ pc |-> "idle", op |-> "-", user |-> "-", sid |-> 0, target |-> "-",
          ref |-> 0, ent |-> NoEnt, seq |-> 0, attempt |-> 0, mid |-> 0,
          umid |-> 0, conc |-> FALSE, base |-> 0, st0 |-> "-", n0 |-> 0,
          hit |-> FALSE, limit |-> 0, acc |-> << >>, limitParam |-> << "undefined" >> ]

NoRes == [ op |-> "-", user |-> "-", sid |-> 0, target |-> "-", out |-> "-",
           ref |-> 0, rsid |-> 0, created |-> FALSE, mid |-> 0, umid |-> 0,
           conc |-> FALSE, base |-> 0, st0 |-> "-", n0 |-> 0, hit |-> FALSE,
           limit |-> 0, acc |-> << >>, page |-> << >>, hasMore |-> FALSE,
           nextCursor |-> 0, sessionStatus |-> "undefined",
           limitParam |-> << "undefined" >> ]

Init ==
  /\ sessions = << >>
  /\ messages = << >>
  /\ published = EmptyBag
  /\ pending = {}
  /\ proc = [ p \in Procs |-> Idle ]
  /\ res = [ p \in Procs |-> NoRes ]
  /\ justDone = "none"
  /\ calls = 0
  /\ overlaps = 0
  /\ everFailed = {}
  /\ uniqueSessionSequence \in BOOLEAN
  /\ optimisticLockOnSave \in BOOLEAN

(* number of user-authored messages of a session *)
UserMessageCount(session_id) ==
  Cardinality({ m \in DOMAIN messages :
                  messages[m].session_id = session_id /\ messages[m].role = "student" })

(* a handler takes a step that does not complete its call *)
Goto(p, c) ==
  /\ proc' = [ proc EXCEPT ![p] = c ]
  /\ justDone' = "none"
  /\ UNCHANGED res

(* a handler's call completes: with a value (out = "OK" or "NULL") or with the
   error code it throws *)
Finish(p, out, rsid, created, mid) ==
  LET c == proc[p] IN
  /\ proc' = [ proc EXCEPT ![p] = Idle ]
  /\ res' = [ res EXCEPT ![p] =
                [ NoRes EXCEPT
                    !.op = c.op, !.user = c.user, !.sid = c.sid, !.target = c.target,
                    !.out = out, !.ref = c.ref, !.rsid = rsid, !.created = created,
                    !.mid = mid, !.umid = c.umid, !.conc = c.conc, !.base = c.base,
                    !.st0 = c.st0, !.n0 = c.n0, !.hit = c.hit, !.limit = c.limit,
                    !.acc = c.acc, !.limitParam = c.limitParam ] ]
  /\ justDone' = p

(* handlers are interchangeable: a request is served by the first idle one *)
Before(q, p) == q = "p1" /\ p = "p2"

(* users are interchangeable: the first session ever created is u1's *)
FirstUser(u) == u = "u1" \/ \E i \in DOMAIN sessions : sessions[i].user_id = "u1"

(* a request arrives at an idle handler *)
Begin(p, c) ==
  /\ proc[p].pc = "idle"
  /\ \A q \in Procs : Before(q, p) => proc[q].pc # "idle"
  /\ calls < MaxCalls
  /\ calls' = calls + 1
  /\ IF \E q \in Procs : proc[q].pc # "idle"
       THEN overlaps < MaxOverlaps /\ overlaps' = overlaps + 1
       ELSE overlaps' = overlaps
  /\ res' = [ res EXCEPT ![p] = NoRes ]
  /\ proc' = [ q \in Procs |->
                IF q = p THEN c
                ELSE IF c.conc /\ proc[q].op = c.op /\ proc[q].sid = c.sid
                          /\ proc[q].user = c.user
                       THEN [ proc[q] EXCEPT !.conc = TRUE ]
                       ELSE proc[q] ]
  /\ justDone' = "none"
  /\ UNCHANGED << sessions, messages, published, pending, everFailed, schema >>

(* the calls of the same operation on the same user and session in flight *)
Overlaps(p, op, u, s) ==
  { q \in Procs \ {p} : proc[q].op = op /\ proc[q].user = u /\ proc[q].sid = s }

(* the status the caller would see when the call starts ("-": no such session) *)
StatusSeen(u, s) ==
  IF s \in DOMAIN sessions /\ sessions[s].user_id = u THEN sessions[s].status ELSE "-"

(* the in-progress session of a user when the call starts (0: none) *)
InProgressSessionOf(u) ==
  LET S == { i \in DOMAIN sessions :
               sessions[i].user_id = u /\ sessions[i].status \in InProgress }
  IN IF S = {} THEN 0 ELSE Max(S)

(* the messages of a session, of whatever role *)
SessionMessages(s) == { m \in DOMAIN messages : messages[m].session_id = s }

(*------------------------- getOrCreateActiveSession ----------------------*)

StartGetOrCreate(p) ==
  \E u \in Users :
    /\ FirstUser(u)
    /\ Begin(p, [ Idle EXCEPT !.pc = "gc_find", !.op = "getOrCreate", !.user = u,
                    !.conc = (Overlaps(p, "getOrCreate", u, 0) # {}),
                    !.base = InProgressSessionOf(u),
                    !.n0 = Len(sessions) ])

(* const existing = await findLatestUserSession(userId);
   if (existing) return { session: existing, created: false }; *)
GetOrCreateFind(p) ==
  LET c == proc[p]
      existing == findLatestUserSession(c.user)
  IN /\ c.pc = "gc_find"
     /\ IF existing # 0
          THEN Finish(p, "OK", existing, FALSE, 0)
          ELSE Goto(p, [ c EXCEPT !.pc = "gc_insert" ])
     /\ UNCHANGED << sessions, messages, published, pending, everFailed, schema, budget >>

(* variant: the unique violation is not caught *)
createSession_NoCatch(p) ==
  LET c == proc[p] IN
  /\ c.pc = "gc_insert"
  /\ IF ViolatesActiveSessionIndex(0, c.user, "active")
       THEN /\ Finish(p, "23505", 0, FALSE, 0)
            /\ UNCHANGED sessions
       ELSE /\ Len(sessions) < MaxSessions
            /\ sessions' = Append(sessions, NewSession(c.user))
            /\ Finish(p, "OK", Len(sessions) + 1, TRUE, 0)
  /\ UNCHANGED << messages, published, pending, everFailed, schema, budget >>

(* ChatSessionRepository.createSession: save, and on the unique violation of the
   active-session index fall through to the re-fetch *)
createSession(p) ==
  LET c == proc[p] IN
  /\ c.pc = "gc_insert"
  /\ IF ViolatesActiveSessionIndex(0, c.user, "active")
       THEN /\ Goto(p, [ c EXCEPT !.pc = "gc_refetch", !.hit = TRUE ])
            /\ UNCHANGED sessions
       ELSE /\ Len(sessions) < MaxSessions
            /\ sessions' = Append(sessions, NewSession(c.user))
            /\ Finish(p, "OK", Len(sessions) + 1, TRUE, 0)
  /\ UNCHANGED << messages, published, pending, everFailed, schema, budget >>

(* catch: const existing = await findLatestUserSession(userId);
   if (existing) return { session: existing, created: false };  throw error; *)
createSessionRefetch(p) ==
  LET c == proc[p]
      existing == findLatestUserSession(c.user)
  IN /\ c.pc = "gc_refetch"
     /\ IF existing # 0
          THEN Finish(p, "OK", existing, FALSE, 0)
          ELSE Finish(p, "23505", 0, FALSE, 0)
     /\ UNCHANGED << sessions, messages, published, pending, everFailed, schema, budget >>

(*------------------ markWaitingForBot / markActive / ... -----------------*)

(* the four public transitions: markWaitingForBot, markActive, markEscalated,
   markCloseSession, named by their target status *)
(* variant: the service also offers a transition to failed *)
MarkTargets_WithFailed == {"waiting_for_bot", "active", "escalated", "ended", "failed"}

MarkTargets == {"waiting_for_bot", "active", "escalated", "ended"}

StartMark(p) ==
  \E u \in Users, s \in DOMAIN sessions, t \in MarkTargets :
    Begin(p, [ Idle EXCEPT !.pc = "mk_find", !.op = "mark", !.user = u, !.sid = s,
                           !.target = t, !.st0 = StatusSeen(u, s) ])

(* what the caller of a mark* method does with its outcome: "OK" (the updated
   session), "NULL", or the error thrown *)
MarkReturns(p, out) ==
  LET c == proc[p] IN
  CASE c.op = "mark" ->
         Finish(p, out, IF out = "OK" THEN c.sid ELSE 0, FALSE, 0)
    [] c.op = "retry" /\ c.target = "active" /\ out \in {"OK", "NULL"} ->
         \* retryFailedSession: the result of markActive is not looked at
         Goto(p, [ c EXCEPT !.pc = "cm_session", !.target = "-", !.ent = NoEnt,
                            !.attempt = 0 ])
    [] c.op \in {"create", "retry"} /\ c.target = "waiting_for_bot"
         /\ out \in {"OK", "NULL"} ->
         \* createNewMessage: return toSafeChatMessage(entry)
         Finish(p, "OK", c.sid, FALSE, c.mid)
    [] c.op = "bot" /\ out \in {"OK", "NULL"} ->
         \* getBotResponse: return toSafeChatMessage(botMessage)
         Finish(p, "OK", c.sid, FALSE, c.mid)
    [] OTHER ->
         \* the error propagates (in createNewMessage through the catch, which
         \* rethrows everything but the unique_session_sequence violation)
         Finish(p, out, 0, FALSE, 0)

(* const session = await findSessionById(sessionId, userId);
   if (!session) return null;
   if (!ALLOWED_TRANSITIONS[session.status].includes(target)) throw ...;
   session.status = target; *)
MarkFind(p) ==
  LET c == proc[p]
      session == findSessionById(c.sid, c.user)
  IN /\ c.pc = "mk_find"
     /\ IF session = 0
          THEN MarkReturns(p, "NULL")
          ELSE IF c.target \notin ALLOWED_TRANSITIONS[sessions[session].status]
                 THEN MarkReturns(p, "INVALID_STATUS_TRANSITION")
                 ELSE Goto(p, [ c EXCEPT !.pc = "mk_save",
                                         !.ent = [ status |-> c.target,
                                                   version |-> sessions[session].version ] ])
     /\ UNCHANGED << sessions, messages, published, pending, everFailed, schema, budget >>

(* variant: the save writes the status and leaves the version column alone *)
updateSession_KeepsVersion(p) ==
  LET c == proc[p]
      row == sessions[c.sid]
  IN /\ c.pc = "mk_save"
     /\ IF optimisticLockOnSave /\ row.version # c.ent.version
          THEN /\ UNCHANGED sessions
               /\ IF c.attempt < maxRetries - 1
                    THEN Goto(p, [ c EXCEPT !.pc = "mk_find", !.ent = NoEnt,
                                            !.attempt = c.attempt + 1 ])
                    ELSE MarkReturns(p, "OptimisticLockVersionMismatchError")
          ELSE /\ sessions' = [ sessions EXCEPT ![c.sid] =
                                  [ row EXCEPT !.status = c.ent.status ] ]
               /\ MarkReturns(p, "OK")
     /\ UNCHANGED << messages, published, pending, everFailed, schema, budget >>

(* variant: the save also hands the session to the first user *)
updateSession_Reassign(p) ==
  LET c == proc[p]
      row == sessions[c.sid]
  IN /\ c.pc = "mk_save"
     /\ sessions' = [ sessions EXCEPT ![c.sid] =
                        [ row EXCEPT !.status = c.ent.status,
                                     !.user_id = "u1",
                                     !.version = row.version + 1 ] ]
     /\ MarkReturns(p, "OK")
     /\ UNCHANGED << messages, published, pending, everFailed, schema, budget >>

(* variant: on a version conflict the save is repeated with the stored version,
   without reading the session and checking the transition again *)
updateSession_RetrySave(p) ==
  LET c == proc[p]
      row == sessions[c.sid]
  IN /\ c.pc = "mk_save"
     /\ IF optimisticLockOnSave /\ row.version # c.ent.version
          THEN /\ UNCHANGED sessions
               /\ IF c.attempt < maxRetries - 1
                    THEN Goto(p, [ c EXCEPT !.ent.version = row.version,
                                            !.attempt = c.attempt + 1 ])
                    ELSE MarkReturns(p, "OptimisticLockVersionMismatchError")
          ELSE /\ sessions' = [ sessions EXCEPT ![c.sid] =
                                  [ row EXCEPT !.status = c.ent.status,
                                               !.version = row.version + 1 ] ]
               /\ MarkReturns(p, "OK")
     /\ UNCHANGED << messages, published, pending, everFailed, schema, budget >>

(* variant: when the last attempt hits a version conflict the method falls out
   of its loop and returns null *)
updateSession_GivesUpQuietly(p) ==
  LET c == proc[p]
      row == sessions[c.sid]
  IN /\ c.pc = "mk_save"
     /\ IF optimisticLockOnSave /\ row.version # c.ent.version
          THEN /\ UNCHANGED sessions
               /\ IF c.attempt < maxRetries - 1
                    THEN Goto(p, [ c EXCEPT !.pc = "mk_find", !.ent = NoEnt,
                                            !.attempt = c.attempt + 1 ])
                    ELSE MarkReturns(p, "NULL")
          ELSE /\ sessions' = [ sessions EXCEPT ![c.sid] =
                                  [ row EXCEPT !.status = c.ent.status,
                                               !.version = row.version + 1 ] ]
               /\ MarkReturns(p, "OK")
     /\ UNCHANGED << messages, published, pending, everFailed, schema, budget >>

(* ChatSessionRepository.updateSession: repo.save(chatSession).  The row is updated by
   its primary key and the version column is incremented; the stored version is
   compared with the entity's only when optimisticLockOnSave. *)
updateSession(p) ==
  LET c == proc[p]
      row == sessions[c.sid]
  IN /\ c.pc = "mk_save"
     /\ IF optimisticLockOnSave /\ row.version # c.ent.version
          THEN \* OptimisticLockVersionMismatchError
               /\ UNCHANGED sessions
               /\ IF c.attempt < maxRetries - 1
                    THEN Goto(p, [ c EXCEPT !.pc = "mk_find", !.ent = NoEnt,
                                            !.attempt = c.attempt + 1 ])
                    ELSE MarkReturns(p, "OptimisticLockVersionMismatchError")
          ELSE IF ViolatesActiveSessionIndex(c.sid, row.user_id, c.ent.status)
                 THEN /\ UNCHANGED sessions
                      /\ MarkReturns(p, "23505")
                 ELSE /\ sessions' = [ sessions EXCEPT ![c.sid] =
                                         [ row EXCEPT !.status = c.ent.status,
                                                      !.version = row.version + 1 ] ]
                      /\ MarkReturns(p, "OK")
     /\ UNCHANGED << messages, published, pending, everFailed, schema, budget >>

(*---------------------------- createNewMessage ---------------------------*)

StartCreateNewMessage(p) ==
  \E u \in Users, s \in DOMAIN sessions :
    Begin(p, [ Idle EXCEPT !.pc = "cm_session", !.op = "create", !.user = u, !.sid = s,
                 !.conc = (Overlaps(p, "create", u, s) # {}),
                 !.base = IF Overlaps(p, "create", u, s) # {}
                            THEN proc[CHOOSE q \in Overlaps(p, "create", u, s) : TRUE].base
                            ELSE UserMessageCount(s),
                 !.st0 = StatusSeen(u, s),
                 !.n0 = Cardinality(SessionMessages(s)) ])

(* const session = await getSessionById(sessionId, userId);
   if (!session) throw SESSION_NOT_FOUND;
   if (BLOCKED_STATUSES.includes(session.status)) throw <status-specific error>; *)
CreateNewMessageSession(p) ==
  LET c == proc[p]
      session == findSessionById(c.sid, c.user)
  IN /\ c.pc = "cm_session"
     /\ IF session = 0
          THEN Finish(p, "SESSION_NOT_FOUND", 0, FALSE, 0)
          ELSE IF sessions[session].status \in BLOCKED_STATUSES
                 THEN Finish(p, BlockedErrorCode(sessions[session].status), 0, FALSE, 0)
                 ELSE Goto(p, [ c EXCEPT !.pc = "cm_latest" ])
     /\ UNCHANGED << sessions, messages, published, pending, everFailed, schema, budget >>

(* const mostRecentMessage = await findLatestMessageBySession(userId, sessionId);
   const nextSequenceNumber = mostRecentMessage ? ... + 1 : 0; *)
CreateNewMessageLatest(p) ==
  LET c == proc[p] IN
  /\ c.pc = "cm_latest"
  /\ Goto(p, [ c EXCEPT !.pc = "cm_insert",
                 !.seq = NextSequenceNumber(findLatestMessageBySession(c.user, c.sid)) ])
  /\ UNCHANGED << sessions, messages, published, pending, everFailed, schema, budget >>

(* variant: a rejected insert is tried again with a freshly read number *)
createMessage_Renumber(p) ==
  LET c == proc[p] IN
  /\ c.pc = "cm_insert"
  /\ IF ViolatesUniqueSessionSequence(c.sid, c.seq)
       THEN /\ Goto(p, [ c EXCEPT !.pc = "cm_latest" ])
            /\ UNCHANGED messages
       ELSE /\ Len(messages) < MaxMessages
            /\ messages' = Append(messages, NewMessage(c.user, c.sid, "student", c.seq))
            /\ Goto(p, [ c EXCEPT !.pc = "cm_publish", !.mid = Len(messages) + 1 ])
  /\ UNCHANGED << sessions, published, pending, everFailed, schema, budget >>

(* ChatMessageRepository.createMessage(userId, sessionId, "student", ..., nextSequenceNumber);
   the catch turns the unique_session_sequence violation into MESSAGE_SEQUENCE_CONFLICT *)
createMessage(p) ==
  LET c == proc[p] IN
  /\ c.pc = "cm_insert"
  /\ IF ViolatesUniqueSessionSequence(c.sid, c.seq)
       THEN /\ Finish(p, "MESSAGE_SEQUENCE_CONFLICT", 0, FALSE, 0)
            /\ UNCHANGED messages
       ELSE /\ Len(messages) < MaxMessages
            /\ messages' = Append(messages, NewMessage(c.user, c.sid, "student", c.seq))
            /\ Goto(p, [ c EXCEPT !.pc = "cm_publish", !.mid = Len(messages) + 1 ])
  /\ UNCHANGED << sessions, published, pending, everFailed, schema, budget >>

(* the payload of a CHAT_MESSAGE_CREATED event (the timestamp left out) *)
Event(userId, sessionId, messageId) ==
  [ userId |-> userId, sessionId |-> sessionId, messageId |-> messageId ]

(* variant: the event is handed to Pub/Sub twice *)
publishMessage_Twice(p) ==
  LET c == proc[p] IN
  /\ c.pc = "cm_publish"
  /\ published' = published (+) SetToBag({ Event(c.user, c.sid, c.mid) })
                            (+) SetToBag({ Event(c.user, c.sid, c.mid) })
  /\ pending' = pending \cup {c.mid}
  /\ Goto(p, [ c EXCEPT !.pc = "mk_find", !.target = "waiting_for_bot", !.attempt = 0 ])
  /\ UNCHANGED << sessions, messages, everFailed, schema, budget >>

(* await publishMessage(PUBSUB_CHAT_BOT_TOPIC, {CHAT_MESSAGE_CREATED, ..., messageId});
   then markWaitingForBot is entered *)
publishMessage(p) ==
  LET c == proc[p] IN
  /\ c.pc = "cm_publish"
  /\ published' = published (+) SetToBag({ Event(c.user, c.sid, c.mid) })
  /\ pending' = pending \cup {c.mid}
  /\ Goto(p, [ c EXCEPT !.pc = "mk_find", !.target = "waiting_for_bot", !.attempt = 0 ])
  /\ UNCHANGED << sessions, messages, everFailed, schema, budget >>

(* variant: when the publish fails within retryFailedSession, the session is
   put back to failed *)
publishMessageFails_BackToFailed(p) ==
  LET c == proc[p] IN
  /\ c.pc = "cm_publish"
  /\ sessions' = IF c.op = "retry"
                   THEN [ sessions EXCEPT ![c.sid].status = "failed",
                                          ![c.sid].version = @ + 1 ]
                   ELSE sessions
  /\ Finish(p, "PUBLISH_ERROR", 0, FALSE, 0)
  /\ UNCHANGED << messages, published, pending, everFailed, schema, budget >>

(* variant: the message is taken back when the publish fails *)
publishMessageFails_Rollback(p) ==
  LET c == proc[p] IN
  /\ c.pc = "cm_publish"
  /\ messages' = [ messages EXCEPT ![c.mid].is_deleted = TRUE ]
  /\ Finish(p, "PUBLISH_ERROR", 0, FALSE, 0)
  /\ UNCHANGED << sessions, published, pending, everFailed, schema, budget >>

(* publishMessage rethrows the Pub/Sub client's error; createNewMessage's catch
   rethrows it in turn *)
publishMessageFails(p) ==
  LET c == proc[p] IN
  /\ c.pc = "cm_publish"
  /\ Finish(p, "PUBLISH_ERROR", 0, FALSE, 0)
  /\ UNCHANGED << sessions, messages, published, pending, everFailed, schema, budget >>

(*----------------------------- getBotResponse ----------------------------*)

(* variant: a bot message with the reference's own sequence number passes *)
IsStale_Strict(botMessage, userMessage) ==
  messages[botMessage].sequence_number < messages[userMessage].sequence_number

(* botMessage.sequence_number <= userMessage.sequence_number: no fresh reply *)
IsStale(botMessage, userMessage) ==
  messages[botMessage].sequence_number <= messages[userMessage].sequence_number

StartGetBotResponse(p) ==
  \E u \in Users, s \in DOMAIN sessions, r \in {0} \cup DOMAIN messages :
    Begin(p, [ Idle EXCEPT !.pc = "br_session", !.op = "bot", !.user = u, !.sid = s,
                           !.ref = r, !.st0 = StatusSeen(u, s),
                           !.n0 = Cardinality(SessionMessages(s)) ])

(* variant: the status of the session is not looked at *)
GetBotResponseSession_AnyStatus(p) ==
  LET c == proc[p]
      session == findSessionById(c.sid, c.user)
  IN /\ c.pc = "br_session"
     /\ IF session = 0
          THEN Finish(p, "NULL", 0, FALSE, 0)
          ELSE Goto(p, [ c EXCEPT !.pc = IF c.ref # 0 THEN "br_byid" ELSE "br_user" ])
     /\ UNCHANGED << sessions, messages, published, pending, everFailed, schema, budget >>

(* const session = await getSessionById(sessionId, userId);
   if (!session) return null;
   if (!["waiting_for_bot", "active"].includes(session.status)) return null; *)
GetBotResponseSession(p) ==
  LET c == proc[p]
      session == findSessionById(c.sid, c.user)
  IN /\ c.pc = "br_session"
     /\ IF session = 0 \/ sessions[c.sid].status \notin {"waiting_for_bot", "active"}
          THEN Finish(p, "NULL", 0, FALSE, 0)
          ELSE Goto(p, [ c EXCEPT !.pc = IF c.ref # 0 THEN "br_byid" ELSE "br_user" ])
     /\ UNCHANGED << sessions, messages, published, pending, everFailed, schema, budget >>

(* if (latestUserMessageId) userMessage = await findMessageById(sessionId, id, userId); *)
GetBotResponseById(p) ==
  LET c == proc[p]
      userMessage == findMessageById(c.sid, c.ref, c.user)
  IN /\ c.pc = "br_byid"
     /\ IF userMessage # 0
          THEN Goto(p, [ c EXCEPT !.pc = "br_bot", !.umid = userMessage ])
          ELSE Goto(p, [ c EXCEPT !.pc = "br_user" ])
     /\ UNCHANGED << sessions, messages, published, pending, everFailed, schema, budget >>

(* if (!userMessage) userMessage = await findLatestUserMessageBySession(userId, sessionId);
   if (!userMessage) return null; *)
GetBotResponseUser(p) ==
  LET c == proc[p]
      userMessage == findLatestUserMessageBySession(c.user, c.sid)
  IN /\ c.pc = "br_user"
     /\ IF userMessage # 0
          THEN Goto(p, [ c EXCEPT !.pc = "br_bot", !.umid = userMessage ])
          ELSE Finish(p, "NULL", 0, FALSE, 0)
     /\ UNCHANGED << sessions, messages, published, pending, everFailed, schema, budget >>

(* const botMessage = await findLatestBotMessageBySession(userId, sessionId);
   if (!botMessage) return null;
   if (botMessage.sequence_number <= userMessage.sequence_number) return null;
   then markActive is entered *)
GetBotResponseBot(p) ==
  LET c == proc[p]
      botMessage == findLatestBotMessageBySession(c.user, c.sid)
  IN /\ c.pc = "br_bot"
     /\ IF botMessage = 0
          THEN Finish(p, "NULL", 0, FALSE, 0)
          ELSE IF IsStale(botMessage, c.umid)
                 THEN Finish(p, "NULL", 0, FALSE, 0)
                 ELSE Goto(p, [ c EXCEPT !.pc = "mk_find", !.target = "active",
                                         !.mid = botMessage, !.attempt = 0 ])
     /\ UNCHANGED << sessions, messages, published, pending, everFailed, schema, budget >>

(*--------------------------- retryFailedSession --------------------------*)

StartRetryFailedSession(p) ==
  \E u \in Users, s \in DOMAIN sessions :
    Begin(p, [ Idle EXCEPT !.pc = "rt_session", !.op = "retry", !.user = u, !.sid = s,
                           !.base = UserMessageCount(s), !.st0 = StatusSeen(u, s),
                           !.n0 = Cardinality(SessionMessages(s)) ])

(* variant: the session is not made active before the message is appended *)
RetryFailedSessionSession_NoReactivate(p) ==
  LET c == proc[p]
      session == findSessionById(c.sid, c.user)
  IN /\ c.pc = "rt_session"
     /\ IF session = 0
          THEN Finish(p, "SESSION_NOT_FOUND", 0, FALSE, 0)
          ELSE IF sessions[session].status # "failed"
                 THEN Finish(p, "SESSION_NOT_FAILED", 0, FALSE, 0)
                 ELSE Goto(p, [ c EXCEPT !.pc = "cm_session" ])
     /\ UNCHANGED << sessions, messages, published, pending, everFailed, schema, budget >>

(* variant: the status of the session is not looked at *)
RetryFailedSessionSession_AnyStatus(p) ==
  LET c == proc[p]
      session == findSessionById(c.sid, c.user)
  IN /\ c.pc = "rt_session"
     /\ IF session = 0
          THEN Finish(p, "SESSION_NOT_FOUND", 0, FALSE, 0)
          ELSE Goto(p, [ c EXCEPT !.pc = "mk_find", !.target = "active",
                                  !.attempt = 0 ])
     /\ UNCHANGED << sessions, messages, published, pending, everFailed, schema, budget >>

(* const session = await getSessionById(sessionId, userId);
   if (!session) throw SESSION_NOT_FOUND;
   if (session.status !== "failed") throw SESSION_NOT_FAILED;
   then markActive is entered *)
RetryFailedSessionSession(p) ==
  LET c == proc[p]
      session == findSessionById(c.sid, c.user)
  IN /\ c.pc = "rt_session"
     /\ IF session = 0
          THEN Finish(p, "SESSION_NOT_FOUND", 0, FALSE, 0)
          ELSE IF sessions[session].status # "failed"
                 THEN Finish(p, "SESSION_NOT_FAILED", 0, FALSE, 0)
                 ELSE Goto(p, [ c EXCEPT !.pc = "mk_find", !.target = "active",
                                         !.attempt = 0 ])
     /\ UNCHANGED << sessions, messages, published, pending, everFailed, schema, budget >>

(*--------------------- calls that name no stored session -----------------*)

(* markX / createNewMessage / getBotResponse / retryFailedSession called with a
   session id that no session has *)
StartUnknownSession(p) ==
  \E u \in Users, op \in {"mark", "create", "bot", "retry"}, t \in MarkTargets :
    LET s == Len(sessions) + 1 IN
    Begin(p, [ Idle EXCEPT !.op = op, !.user = u, !.sid = s,
                 !.pc = CASE op = "mark"   -> "mk_find"
                          [] op = "create" -> "cm_session"
                          [] op = "bot"    -> "br_session"
                          [] op = "retry"  -> "rt_session",
                 !.target = IF op = "mark" THEN t ELSE "-",
                 !.st0 = StatusSeen(u, s) ])

(***************************************************************************)
(* The bot worker (external): it handles a published event by storing a    *)
(* bot message numbered like any other message, and updates the session's  *)
(* status to active; when it cannot answer, the session becomes failed.    *)
(***************************************************************************)

WorkerStoresReply ==
  \E e \in pending :
    LET u == messages[e].user_id
        s == messages[e].session_id
        n == NextSequenceNumber(findLatestMessageBySession(u, s))
    IN /\ Len(messages) < MaxMessages
       /\ ~ViolatesUniqueSessionSequence(s, n)
       /\ messages' = Append(messages, NewMessage(u, s, "bot", n))
       /\ pending' = pending \ {e}
       /\ justDone' = "none"
       /\ UNCHANGED << sessions, published, proc, res, everFailed, schema, budget >>

WorkerMarksActive ==
  \E s \in DOMAIN sessions :
    LET last == findLatestMessageBySession(sessions[s].user_id, s) IN
    /\ sessions[s].status = "waiting_for_bot"
    /\ last # 0
    /\ messages[last].role = "bot"
    /\ sessions' = [ sessions EXCEPT ![s].status = "active", ![s].version = @ + 1 ]
    /\ justDone' = "none"
    /\ UNCHANGED << messages, published, pending, proc, res, everFailed, schema, budget >>

WorkerMarksFailed ==
  \E e \in pending :
    LET s == messages[e].session_id IN
    /\ sessions[s].status = "waiting_for_bot"
    /\ sessions' = [ sessions EXCEPT ![s].status = "failed", ![s].version = @ + 1 ]
    /\ pending' = pending \ {e}
    /\ everFailed' = everFailed \cup {s}
    /\ justDone' = "none"
    /\ UNCHANGED << messages, published, proc, res, schema, budget >>

(***************************************************************************)
(* Specifications                                                          *)
(***************************************************************************)

Next ==
  \/ \E p \in Procs : StartGetOrCreate(p)
  \/ \E p \in Procs : GetOrCreateFind(p)
  \/ \E p \in Procs : createSession(p)
  \/ \E p \in Procs : createSessionRefetch(p)
  \/ \E p \in Procs : StartMark(p)
  \/ \E p \in Procs : MarkFind(p)
  \/ \E p \in Procs : updateSession(p)
  \/ \E p \in Procs : StartCreateNewMessage(p)
  \/ \E p \in Procs : CreateNewMessageSession(p)
  \/ \E p \in Procs : CreateNewMessageLatest(p)
  \/ \E p \in Procs : createMessage(p)
  \/ \E p \in Procs : publishMessage(p)
  \/ \E p \in Procs : publishMessageFails(p)
  \/ \E p \in Procs : StartGetBotResponse(p)
  \/ \E p \in Procs : GetBotResponseSession(p)
  \/ \E p \in Procs : GetBotResponseById(p)
  \/ \E p \in Procs : GetBotResponseUser(p)
  \/ \E p \in Procs : GetBotResponseBot(p)
  \/ \E p \in Procs : StartRetryFailedSession(p)
  \/ \E p \in Procs : RetryFailedSessionSession(p)
  \/ WorkerStoresReply
  \/ WorkerMarksActive
  \/ WorkerMarksFailed

Spec == Init /\ [][Next]_vars

(* One client, one request at a time: a request arrives, and the worker acts,
   only while no call is in flight. *)
AllIdle == \A p \in Procs : proc[p].pc = "idle"

NextSeq ==
  \/ AllIdle /\ \E p \in Procs : StartGetOrCreate(p)
  \/ \E p \in Procs : GetOrCreateFind(p)
  \/ \E p \in Procs : createSession(p)
  \/ AllIdle /\ \E p \in Procs : StartMark(p)
  \/ \E p \in Procs : MarkFind(p)
  \/ \E p \in Procs : updateSession(p)
  \/ AllIdle /\ \E p \in Procs : StartCreateNewMessage(p)
  \/ \E p \in Procs : CreateNewMessageSession(p)
  \/ \E p \in Procs : CreateNewMessageLatest(p)
  \/ \E p \in Procs : createMessage(p)
  \/ \E p \in Procs : publishMessage(p)
  \/ \E p \in Procs : publishMessageFails(p)
  \/ AllIdle /\ \E p \in Procs : StartGetBotResponse(p)
  \/ \E p \in Procs : GetBotResponseSession(p)
  \/ \E p \in Procs : GetBotResponseById(p)
  \/ \E p \in Procs : GetBotResponseUser(p)
  \/ \E p \in Procs : GetBotResponseBot(p)
  \/ AllIdle /\ \E p \in Procs : StartRetryFailedSession(p)
  \/ \E p \in Procs : RetryFailedSessionSession(p)
  \/ AllIdle /\ \E p \in Procs : StartUnknownSession(p)
  \/ AllIdle /\ WorkerStoresReply
  \/ AllIdle /\ WorkerMarksActive
  \/ AllIdle /\ WorkerMarksFailed

SpecSeq == Init /\ [][NextSeq]_vars

(* The transition methods against concurrent writers.  The store holds the
   session getOrCreateActiveSession has just created for u1; besides the mark*
   calls of this instance, served one at a time, other writers (another instance of the service, the
   bot worker) apply transitions of the table to it, each a read, check and
   save that no other write falls into. *)
InitRetry ==
  /\ sessions = << NewSession("u1") >>
  /\ messages = << >>
  /\ published = EmptyBag
  /\ pending = {}
  /\ proc = [ p \in Procs |-> Idle ]
  /\ res = [ p \in Procs |-> NoRes ]
  /\ justDone = "none"
  /\ calls = 0
  /\ overlaps = 0
  /\ everFailed = {}
  /\ uniqueSessionSequence \in BOOLEAN
  /\ optimisticLockOnSave \in BOOLEAN

ConcurrentWriter ==
  \E s \in DOMAIN sessions, t \in Statuses :
    /\ sessions[s].version < MaxVersion
    /\ t \in ALLOWED_TRANSITIONS[sessions[s].status]
    /\ ~ViolatesActiveSessionIndex(s, sessions[s].user_id, t)
    /\ sessions' = [ sessions EXCEPT ![s].status = t, ![s].version = @ + 1 ]
    /\ justDone' = "none"
    /\ UNCHANGED << messages, published, pending, proc, res, everFailed, schema, budget >>

NextRetry ==
  \/ AllIdle /\ \E p \in Procs : StartMark(p)
  \/ \E p \in Procs : MarkFind(p)
  \/ \E p \in Procs : updateSession(p)
  \/ ConcurrentWriter

SpecRetry == InitRetry /\ [][NextRetry]_vars

(* The second turn of a conversation, one call at a time.  The store is the one
   left by the first turn: u1's session was created, u1's message 1 was
   appended and published, the worker stored its reply, message 2, and the
   session is active again. *)
InitTurn ==
  /\ sessions = << [ NewSession("u1") EXCEPT !.version = 3 ] >>
  /\ messages = << [ session_id |-> 1, user_id |-> "u1", role |-> "student",
                     sequence_number |-> 0, is_deleted |-> FALSE, created_at |-> 1 ],
                   [ session_id |-> 1, user_id |-> "u1", role |-> "bot",
                     sequence_number |-> 1, is_deleted |-> FALSE, created_at |-> 2 ] >>
  /\ published = SetToBag({ Event("u1", 1, 1) })
  /\ pending = {}
  /\ proc = [ p \in Procs |-> Idle ]
  /\ res = [ p \in Procs |-> NoRes ]
  /\ justDone = "none"
  /\ calls = 0
  /\ overlaps = 0
  /\ everFailed = {}
  /\ uniqueSessionSequence \in BOOLEAN
  /\ optimisticLockOnSave \in BOOLEAN

(* The requests of a second turn, one at a time.  The worker marks the session
   but stores no further reply: with the two messages of the first turn and
   the message of the second the store is at MaxMessages. *)
NextTurn ==
  \/ AllIdle /\ \E p \in Procs : StartGetOrCreate(p)
  \/ \E p \in Procs : GetOrCreateFind(p)
  \/ \E p \in Procs : createSession(p)
  \/ AllIdle /\ \E p \in Procs : StartMark(p)
  \/ \E p \in Procs : MarkFind(p)
  \/ \E p \in Procs : updateSession(p)
  \/ AllIdle /\ \E p \in Procs : StartCreateNewMessage(p)
  \/ \E p \in Procs : CreateNewMessageSession(p)
  \/ \E p \in Procs : CreateNewMessageLatest(p)
  \/ \E p \in Procs : createMessage(p)
  \/ \E p \in Procs : publishMessage(p)
  \/ \E p \in Procs : publishMessageFails(p)
  \/ AllIdle /\ \E p \in Procs : StartGetBotResponse(p)
  \/ \E p \in Procs : GetBotResponseSession(p)
  \/ \E p \in Procs : GetBotResponseById(p)
  \/ \E p \in Procs : GetBotResponseUser(p)
  \/ \E p \in Procs : GetBotResponseBot(p)
  \/ AllIdle /\ \E p \in Procs : StartRetryFailedSession(p)
  \/ \E p \in Procs : RetryFailedSessionSession(p)
  \/ AllIdle /\ \E p \in Procs : StartUnknownSession(p)
  \/ AllIdle /\ WorkerMarksActive
  \/ AllIdle /\ WorkerMarksFailed

SpecTurn == InitTurn /\ [][NextTurn]_vars

(* ChatMessageRepository.softDelete: the row's is_deleted flag is set and
   nothing else changes.  No service operation calls it; it is taken between
   calls, on any message that is not yet deleted. *)
softDelete ==
  \E m \in DOMAIN messages :
    /\ AllIdle
    /\ ~messages[m].is_deleted
    /\ messages' = [ messages EXCEPT ![m].is_deleted = TRUE ]
    /\ justDone' = "none"
    /\ UNCHANGED << sessions, published, pending, proc, res, everFailed, schema, budget >>

NextSoftDelete == NextTurn \/ softDelete

SpecSoftDelete == InitTurn /\ [][NextSoftDelete]_vars

(* The service's operations alone.  The requests are those the routes offer:
   of the mark* methods only markCloseSession is called directly
   (chatSession.controller.ts); the worker stores replies and writes no session
   status.
   The starting state is one that two overlapping createNewMessage calls of u1
   on the active session 1 reach: both passed the status check, the first
   stored and published message 1 and has markWaitingForBot still to run, the
   second stored and published message 2, marked the session waiting_for_bot
   and returned.  calls and overlaps count from this state on. *)
InitOverlap ==
  /\ sessions = << [ NewSession("u1") EXCEPT !.status = "waiting_for_bot", !.version = 2 ] >>
  /\ messages = << [ session_id |-> 1, user_id |-> "u1", role |-> "student",
                     sequence_number |-> 0, is_deleted |-> FALSE, created_at |-> 1 ],
                   [ session_id |-> 1, user_id |-> "u1", role |-> "student",
                     sequence_number |-> 1, is_deleted |-> FALSE, created_at |-> 2 ] >>
  /\ published = SetToBag({ Event("u1", 1, 1), Event("u1", 1, 2) })
  /\ pending = {1, 2}
  /\ proc = [ p \in Procs |->
                IF p = "p1"
                  THEN [ Idle EXCEPT !.pc = "mk_find", !.op = "create", !.user = "u1",
                                     !.sid = 1, !.target = "waiting_for_bot", !.mid = 1,
                                     !.conc = TRUE, !.st0 = "active" ]
                  ELSE Idle ]
  /\ res = [ p \in Procs |->
               IF p = "p2"
                 THEN [ NoRes EXCEPT !.op = "create", !.user = "u1", !.sid = 1,
                                     !.target = "waiting_for_bot", !.mid = 2, !.conc = TRUE,
                                     !.st0 = "active", !.out = "OK", !.rsid = 1 ]
                 ELSE NoRes ]
  /\ justDone = "none"
  /\ calls = 0
  /\ overlaps = 0
  /\ everFailed = {}
  /\ uniqueSessionSequence \in BOOLEAN
  /\ optimisticLockOnSave \in BOOLEAN

StartCloseSession(p) ==
  \E u \in Users, s \in DOMAIN sessions :
    Begin(p, [ Idle EXCEPT !.pc = "mk_find", !.op = "mark", !.user = u, !.sid = s,
                           !.target = "ended", !.st0 = StatusSeen(u, s) ])

NextService ==
  \/ \E p \in Procs : StartGetOrCreate(p)
  \/ \E p \in Procs : GetOrCreateFind(p)
  \/ \E p \in Procs : createSession(p)
  \/ \E p \in Procs : createSessionRefetch(p)
  \/ \E p \in Procs : StartCloseSession(p)
  \/ \E p \in Procs : MarkFind(p)
  \/ \E p \in Procs : updateSession(p)
  \/ \E p \in Procs : StartCreateNewMessage(p)
  \/ \E p \in Procs : CreateNewMessageSession(p)
  \/ \E p \in Procs : CreateNewMessageLatest(p)
  \/ \E p \in Procs : createMessage(p)
  \/ \E p \in Procs : publishMessage(p)
  \/ \E p \in Procs : publishMessageFails(p)
  \/ \E p \in Procs : StartGetBotResponse(p)
  \/ \E p \in Procs : GetBotResponseSession(p)
  \/ \E p \in Procs : GetBotResponseById(p)
  \/ \E p \in Procs : GetBotResponseUser(p)
  \/ \E p \in Procs : GetBotResponseBot(p)
  \/ \E p \in Procs : StartRetryFailedSession(p)
  \/ \E p \in Procs : RetryFailedSessionSession(p)
  \/ WorkerStoresReply

SpecService == InitOverlap /\ [][NextService]_vars

(* Concurrent calls on a failed session.  The store is the one left by a first
   turn that failed: u1's session was created, u1's message 1 was appended and
   published, and the worker marked the session failed. *)
InitFailed ==
  /\ sessions = << [ NewSession("u1") EXCEPT !.status = "failed", !.version = 3 ] >>
  /\ messages = << [ session_id |-> 1, user_id |-> "u1", role |-> "student",
                     sequence_number |-> 0, is_deleted |-> FALSE, created_at |-> 1 ] >>
  /\ published = SetToBag({ Event("u1", 1, 1) })
  /\ pending = {}
  /\ proc = [ p \in Procs |-> Idle ]
  /\ res = [ p \in Procs |-> NoRes ]
  /\ justDone = "none"
  /\ calls = 0
  /\ overlaps = 0
  /\ everFailed = {1}
  /\ uniqueSessionSequence \in BOOLEAN
  /\ optimisticLockOnSave \in BOOLEAN

SpecFailed == InitFailed /\ [][Next]_vars

(*------------------------ getSessionMessagesByUser -----------------------*)

(* order: { created_at: "DESC", message_id: "DESC" }: a comes before b *)
Newer(a, b) ==
  \/ messages[a].created_at > messages[b].created_at
  \/ messages[a].created_at = messages[b].created_at /\ a > b

RECURSIVE OrderDesc(_)
OrderDesc(S) ==
  IF S = {} THEN << >>
  ELSE LET m == CHOOSE x \in S : \A y \in S \ {x} : Newer(x, y)
       IN << m >> \o OrderDesc(S \ {m})

(* take: limit *)
Take(rows, limit) == SubSeq(rows, 1, IF Len(rows) < limit THEN Len(rows) ELSE limit)

(* variant: the cursor compares creation times only *)
findByMessageAfterId_ByTimeOnly(session_id, user_id, lastMessageId, limit) ==
  LET baseWhere == { m \in DOMAIN messages :
                       /\ messages[m].session_id = session_id
                       /\ messages[m].user_id = user_id
                       /\ ~messages[m].is_deleted }
      lastEntry == IF lastMessageId \in DOMAIN messages THEN lastMessageId ELSE 0
      rows == IF lastEntry # 0
                THEN { m \in baseWhere :
                         messages[m].created_at < messages[lastEntry].created_at }
                ELSE baseWhere
  IN Take(OrderDesc(rows), limit)

(* ChatMessageRepository.findByMessageAfterId: the rows of the session and user
   that are not soft-deleted and, when lastMessageId names a stored message,
   come after it in the order; newest first, at most limit of them.  The
   cursor row is looked up by message_id alone. *)
findByMessageAfterId(session_id, user_id, lastMessageId, limit) ==
  LET baseWhere == { m \in DOMAIN messages :
                       /\ messages[m].session_id = session_id
                       /\ messages[m].user_id = user_id
                       /\ ~messages[m].is_deleted }
      lastEntry == IF lastMessageId \in DOMAIN messages THEN lastMessageId ELSE 0
      rows == IF lastEntry # 0
                THEN { m \in baseWhere : Newer(lastEntry, m) }
                ELSE baseWhere
  IN Take(OrderDesc(rows), limit)

(* what getSessionMessagesByUser returns: { messages, hasMore, nextCursor } *)
PaginatedSessionMessages(userId, sessionId, limit, lastMessageId) ==
  LET fetchLimit == limit + 1
      fetched == findByMessageAfterId(sessionId, userId, lastMessageId, fetchLimit)
      hasMore == Len(fetched) > limit
      slicedEntries == IF hasMore THEN SubSeq(fetched, 1, limit) ELSE fetched
  IN [ messages |-> slicedEntries,
       hasMore |-> hasMore,
       nextCursor |-> IF hasMore THEN slicedEntries[Len(slicedEntries)] ELSE 0 ]

(* the characters of the limit query values tried; a value is a sequence of
   them, and << "undefined" >> stands for a request without the parameter *)
Digit == << "0", "1", "2", "3", "4", "5", "6", "7", "8", "9" >>

DigitValue(ch) == (CHOOSE i \in DOMAIN Digit : Digit[i] = ch) - 1

IsDigit(ch) == \E i \in DOMAIN Digit : Digit[i] = ch

(* the decimal numeral of n, 0 <= n <= 99 *)
Numeral(n) == IF n < 10 THEN << Digit[n + 1] >>
              ELSE << Digit[(n \div 10) + 1], Digit[(n % 10) + 1] >>

LimitParams ==
  { << "undefined" >>, << >>, << "a", "b", "c" >>, << "-", "1" >>, << "2", "x" >>,
    << " ", "1" >>, Numeral(50), Numeral(51) }
  \cup { Numeral(n) : n \in 0..MaxLimit }

(* parseInt(string, 10): leading white space is skipped, a sign is read, then
   the longest run of digits; NaN when there is no digit *)
NaN == [ isNaN |-> TRUE, value |-> 0 ]

Number(n) == [ isNaN |-> FALSE, value |-> n ]

RECURSIVE DigitRun(_, _)
DigitRun(str, value) ==
  IF str = << >> \/ ~IsDigit(Head(str)) THEN value
  ELSE DigitRun(Tail(str), 10 * value + DigitValue(Head(str)))

RECURSIVE parseInt(_)
parseInt(str) ==
  IF str = << >> THEN NaN
  ELSE IF Head(str) = " " THEN parseInt(Tail(str))
  ELSE LET signed == Head(str) \in {"-", "+"}
           digits == IF signed THEN Tail(str) ELSE str
       IN IF digits = << >> \/ ~IsDigit(Head(digits)) THEN NaN
          ELSE IF Head(str) = "-" THEN Number(0 - DigitRun(digits, 0))
          ELSE Number(DigitRun(digits, 0))

(* variant: a value above the maximum is cut down to the maximum *)
EffectiveLimit_Clamped(limitParam) ==
  IF limitParam = << "undefined" >> \/ limitParam = << >> THEN defaultLimit
  ELSE LET parsedLimit == parseInt(limitParam) IN
       IF ~parsedLimit.isNaN /\ parsedLimit.value > maxLimit THEN maxLimit
       ELSE IF ~parsedLimit.isNaN /\ parsedLimit.value > 0 THEN parsedLimit.value
       ELSE defaultLimit

(* let limit = 10; if (limitParam) { const parsedLimit = parseInt(limitParam, 10);
   if (!isNaN(parsedLimit) && parsedLimit > 0 && parsedLimit <= 50) limit = parsedLimit; } *)
EffectiveLimit(limitParam) ==
  IF limitParam = << "undefined" >> \/ limitParam = << >> THEN defaultLimit
  ELSE LET parsedLimit == parseInt(limitParam) IN
       IF ~parsedLimit.isNaN /\ parsedLimit.value > 0 /\ parsedLimit.value <= maxLimit
         THEN parsedLimit.value
         ELSE defaultLimit

(* handleChatMessagesRetrieval: the first page is asked for.  The stores of
   InitList are the same with u1 and u2 exchanged, so the caller is u1, asking
   for its own session or for the other one. *)
StartGetSessionMessages(p) ==
  \E u \in {"u1"}, s \in DOMAIN sessions, limitParam \in LimitParams :
    Begin(p, [ Idle EXCEPT !.pc = "ls_find", !.op = "list", !.user = u, !.sid = s,
                           !.limitParam = limitParam,
                           !.limit = EffectiveLimit(limitParam),
                           !.st0 = StatusSeen(u, s) ])

(* the client follows nextCursor *)
StartNextPage(p) ==
  /\ res[p].op = "list" /\ res[p].out = "OK" /\ res[p].hasMore
  /\ Begin(p, [ Idle EXCEPT !.pc = "ls_find", !.op = "list", !.user = res[p].user,
                            !.sid = res[p].sid, !.limitParam = res[p].limitParam,
                            !.limit = EffectiveLimit(res[p].limitParam),
                            !.ref = res[p].nextCursor, !.acc = res[p].acc,
                            !.st0 = StatusSeen(res[p].user, res[p].sid) ])

(* getSessionMessagesByUser, the messages decrypted by toSafeChatMessages.  The
   object returned has no sessionStatus property. *)
getSessionMessagesByUser(p) ==
  LET c == proc[p]
      r == PaginatedSessionMessages(c.user, c.sid, c.limit, c.ref)
  IN /\ c.pc = "ls_find"
     /\ proc' = [ proc EXCEPT ![p] = Idle ]
     /\ res' = [ res EXCEPT ![p] =
                   [ NoRes EXCEPT !.op = c.op, !.user = c.user, !.sid = c.sid,
                                  !.out = "OK", !.ref = c.ref, !.st0 = c.st0,
                                  !.limit = c.limit, !.limitParam = c.limitParam,
                                  !.acc = c.acc \o r.messages,
                                  !.page = r.messages, !.hasMore = r.hasMore,
                                  !.nextCursor = r.nextCursor ] ]
     /\ justDone' = p
     /\ UNCHANGED << sessions, messages, published, pending, everFailed, schema, budget >>

(* toSafeChatMessage: the content of a message of the page does not decrypt:
   throw new AppError(500, 'DECRYPTION_ERROR', ..., true) *)
toSafeChatMessagesFails(p) ==
  LET c == proc[p]
      r == PaginatedSessionMessages(c.user, c.sid, c.limit, c.ref)
  IN /\ c.pc = "ls_find"
     /\ r.messages # << >>
     /\ Finish(p, "DECRYPTION_ERROR", 0, FALSE, 0)
     /\ UNCHANGED << sessions, messages, published, pending, everFailed, schema, budget >>

(* the query of the page fails in the store: an Error that is no AppError *)
findByMessageAfterIdFails(p) ==
  /\ proc[p].pc = "ls_find"
  /\ Finish(p, "QueryFailedError", 0, FALSE, 0)
  /\ UNCHANGED << sessions, messages, published, pending, everFailed, schema, budget >>

(* The stores the listing is read from: up to MaxMessages messages, each of
   session 1 (of u1) or session 2 (of u2), soft-deleted or not, created at any
   of MaxTime instants; within a session the turns alternate, and a session
   whose last message is the user's is waiting for the bot. *)
RankIn(sid, i) == Cardinality({ j \in 1..i : sid[j] = sid[i] })

StoredMessages(sid, del, at) ==
  [ i \in DOMAIN sid |->
      [ session_id |-> sid[i],
        user_id |-> IF sid[i] = 1 THEN "u1" ELSE "u2",
        role |-> IF RankIn(sid, i) % 2 = 1 THEN "student" ELSE "bot",
        sequence_number |-> RankIn(sid, i) - 1,
        is_deleted |-> del[i],
        created_at |-> at[i] ] ]

StoredSession(u, s, sid) ==
  LET M == { i \in DOMAIN sid : sid[i] = s } IN
  [ user_id |-> u,
    status |-> IF Cardinality(M) % 2 = 1 THEN "waiting_for_bot" ELSE "active",
    version |-> 1 + Cardinality(M) ]

InitList ==
  /\ \E n \in 0..MaxMessages :
       \E sid \in [ 1..n -> 1..2 ], del \in [ 1..n -> BOOLEAN ], at \in [ 1..n -> 1..MaxTime ] :
         /\ messages = StoredMessages(sid, del, at)
         /\ sessions = << StoredSession("u1", 1, sid), StoredSession("u2", 2, sid) >>
  /\ published = EmptyBag
  /\ pending = {}
  /\ proc = [ p \in Procs |-> Idle ]
  /\ res = [ p \in Procs |-> NoRes ]
  /\ justDone = "none"
  /\ calls = 0
  /\ overlaps = 0
  /\ everFailed = {}
  /\ uniqueSessionSequence = FALSE
  /\ optimisticLockOnSave = FALSE

(* one client pages through one session: a first page, then the cursors *)
NextList ==
  \/ calls = 0 /\ \E p \in Procs : StartGetSessionMessages(p)
  \/ \E p \in Procs : StartNextPage(p)
  \/ \E p \in Procs : getSessionMessagesByUser(p)
  \/ \E p \in Procs : toSafeChatMessagesFails(p)
  \/ \E p \in Procs : findByMessageAfterIdFails(p)

SpecList == InitList /\ [][NextList]_vars

(*----------------------------- errorMiddleware ---------------------------*)

(* new AppError(statusCode, code, message, isOperational = true) *)
AppError(statusCode, code, message, isOperational) ==
  [ isAppError |-> TRUE, statusCode |-> statusCode, code |-> code,
    message |-> message, isOperational |-> isOperational, name |-> "Error" ]

(* the error object behind each way a call of the services fails: the AppErrors
   the services construct, and the errors of the ORM and of Pub/Sub *)
Thrown(out) ==
  CASE out = "SESSION_NOT_FOUND" ->
         AppError(404, out, "Chat session not found for user", TRUE)
    [] out = "SESSION_WAITING_FOR_BOT" ->
         AppError(409, out, "Cannot send message: waiting for bot response", TRUE)
    [] out = "SESSION_ENDED" ->
         AppError(400, out, "Cannot send message: session has ended", TRUE)
    [] out = "SESSION_ESCALATED" ->
         AppError(400, out, "Cannot send message: session has been escalated to human support", TRUE)
    [] out = "SESSION_FAILED" ->
         AppError(400, out, "Cannot send message: session is in a failed state, please try again", TRUE)
    [] out = "SESSION_NOT_ACTIVE" ->
         AppError(400, out, "Cannot send message: session is not active", TRUE)
    [] out = "MESSAGE_SEQUENCE_CONFLICT" ->
         AppError(409, out, "Please wait for the bot to respond before sending another message", TRUE)
    [] out = "SESSION_NOT_FAILED" ->
         AppError(400, out, "Session is not in a failed state and cannot be retried", TRUE)
    [] out = "INVALID_STATUS_TRANSITION" ->
         AppError(400, out, "Cannot transition status", TRUE)
    [] out = "DECRYPTION_ERROR" ->
         AppError(500, out, "Failed to decrypt chat message", TRUE)
    [] OTHER ->
         [ isAppError |-> FALSE, statusCode |-> 0, code |-> "-", message |-> out,
           isOperational |-> FALSE, name |-> out ]

(* errorMiddleware with NODE_ENV = production: status and body of the response *)
errorMiddleware(err) ==
  LET isAppError == err.isAppError
      isOperational == isAppError /\ err.isOperational
  IN [ success |-> FALSE,
       statusCode |-> IF isAppError THEN err.statusCode ELSE 500,
       code |-> IF isAppError THEN err.code ELSE "INTERNAL_SERVER_ERROR",
       message |-> IF isOperational /\ isAppError THEN err.message
                   ELSE "Internal Server Error",
       errorId |-> "uuid" ]

(***************************************************************************)
(* Properties                                                              *)
(***************************************************************************)

(* the two store behaviours the documentation of the services relies on *)
Guarded == uniqueSessionSequence /\ optimisticLockOnSave

Done(p, op) == justDone = p /\ res[p].op = op

(* C1: at every moment a user owns at most one session whose status is
   active, waiting_for_bot or failed. *)
C1_OneInProgressSessionPerUser ==
  \A u \in Users :
    Cardinality({ i \in DOMAIN sessions :
                    sessions[i].user_id = u /\ sessions[i].status \in InProgress }) <= 1

(* C1 witness: the store has turned down the insert of a second in-progress
   session for a user who already owns one. *)
C1_Witness ==
  \E p \in Procs :
    /\ proc[p].pc = "gc_refetch"
    /\ InProgressSessionOf(proc[p].user) # 0

(* C2: two overlapping createNewMessage calls on one session that both read it
   as active: exactly one returns the stored message, the other fails with
   MESSAGE_SEQUENCE_CONFLICT, the session ends up waiting_for_bot and holds
   exactly one new user message. Stated for the store that has both the
   sequence constraint and the version check, for calls whose publish went
   through, and with the bot worker not having touched the session. *)
ReadAsActive(r) ==
  /\ r.op = "create" /\ r.conc /\ r.st0 = "active"
  /\ r.out \notin {"-", "SESSION_NOT_FOUND", "PUBLISH_ERROR"}
  /\ r.out \notin { BlockedErrorCode(st) : st \in BLOCKED_STATUSES }

C2_ExactlyOneAppendSucceeds ==
  \A p, q \in Procs :
    ( /\ p # q /\ Guarded
      /\ justDone = p /\ proc[q].pc = "idle"
      /\ ReadAsActive(res[p]) /\ ReadAsActive(res[q])
      /\ res[p].sid = res[q].sid /\ res[p].user = res[q].user
      /\ res[p].base = res[q].base
      /\ res[p].sid \notin everFailed
      /\ \A m \in SessionMessages(res[p].sid) : messages[m].role = "student" )
    => /\ {res[p].out, res[q].out} = {"OK", "MESSAGE_SEQUENCE_CONFLICT"}
       /\ sessions[res[p].sid].status = "waiting_for_bot"
       /\ UserMessageCount(res[p].sid) = res[p].base + 1

(* C3: in a session that was never failed, between two consecutive user
   messages there is a bot message that answers the first of them. *)
C3_OneInFlightUserMessage ==
  \A m1, m2 \in DOMAIN messages :
    ( /\ m1 < m2
      /\ messages[m1].role = "student" /\ messages[m2].role = "student"
      /\ messages[m1].session_id = messages[m2].session_id
      /\ messages[m1].session_id \notin everFailed
      /\ Guarded )
    => \E b \in DOMAIN messages :
         /\ b < m2
         /\ messages[b].role = "bot"
         /\ messages[b].session_id = messages[m1].session_id
         /\ messages[b].sequence_number > messages[m1].sequence_number

(* C4: within a session the sequence numbers are distinct and contiguous from
   0, and a later message carries a larger number than an earlier one. *)
C4_ContiguousSequenceNumbers ==
  \A s \in DOMAIN sessions :
    /\ { messages[m].sequence_number : m \in SessionMessages(s) }
         = 0 .. (Cardinality(SessionMessages(s)) - 1)
    /\ \A m1, m2 \in SessionMessages(s) :
         m1 < m2 => messages[m1].sequence_number < messages[m2].sequence_number

(* C5: a message returned by getBotResponse is a bot message of the session
   whose sequence number is greater than that of the reference message. *)
C5_NoStaleReply ==
  \A p \in Procs :
    (Done(p, "bot") /\ res[p].out = "OK" /\ res[p].mid # 0)
    => /\ messages[res[p].mid].role = "bot"
       /\ messages[res[p].mid].session_id = res[p].sid
       /\ res[p].umid \in DOMAIN messages
       /\ messages[res[p].mid].sequence_number > messages[res[p].umid].sequence_number

(* C5 witness: getBotResponse, given the id of a user message, has returned
   the bot message that answers it. *)
C5_Witness ==
  \E p \in Procs :
    /\ Done(p, "bot") /\ res[p].out = "OK" /\ res[p].mid # 0
    /\ res[p].ref # 0 /\ res[p].umid = res[p].ref
    /\ messages[res[p].ref].role = "student"

(* C6: the permitted transitions are active -> waiting_for_bot | ended |
   escalated, waiting_for_bot -> active | ended | escalated | failed, failed ->
   active | ended | escalated, none out of ended or escalated; a transition
   method asked for any other (from, to) pair fails with
   INVALID_STATUS_TRANSITION and leaves status and version as they are. *)
TransitionTable ==
  [ active          |-> {"waiting_for_bot", "ended", "escalated"},
    waiting_for_bot |-> {"active", "ended", "escalated", "failed"},
    failed          |-> {"active", "ended", "escalated"},
    ended           |-> {},
    escalated       |-> {} ]

C6_InvalidTransitionRejected ==
  [][ \A p \in Procs :
        ( /\ proc[p].pc = "mk_find"
          /\ proc'[p].pc # "mk_find"
          /\ proc[p].sid \in DOMAIN sessions
          /\ sessions[proc[p].sid].user_id = proc[p].user
          /\ proc[p].target \notin TransitionTable[sessions[proc[p].sid].status] )
        => /\ proc'[p].pc = "idle"
           /\ res'[p].out = "INVALID_STATUS_TRANSITION"
           /\ sessions' = sessions ]_vars

(* C6 witness: a transition method was called on a session that was ended or
   escalated when the call began, and has failed with
   INVALID_STATUS_TRANSITION. *)
C6_Witness ==
  \E p \in Procs :
    /\ Done(p, "mark") /\ res[p].out = "INVALID_STATUS_TRANSITION"
    /\ res[p].st0 \in Terminal
    /\ sessions[res[p].sid].status = res[p].st0

(* C7: the status of a session that is ended or escalated never changes
   again, whatever calls run concurrently. *)
C7_TerminalIsFinal ==
  [][ \A s \in DOMAIN sessions :
        sessions[s].status \in Terminal => sessions'[s].status = sessions[s].status ]_vars

(* C8: getOrCreateActiveSession called for a user without an in-progress
   session creates an active session and reports created; called for a user
   with one it returns that session, reports not created and stores no row. *)
C8_GetOrCreateIdempotent ==
  \A p \in Procs :
    Done(p, "getOrCreate")
    => /\ res[p].out = "OK"
       /\ res[p].base = 0
            => /\ res[p].created
               /\ Len(sessions) = res[p].n0 + 1
               /\ res[p].rsid = Len(sessions)
               /\ sessions[res[p].rsid] = NewSession(res[p].user)
       /\ res[p].base # 0
            => /\ ~res[p].created
               /\ res[p].rsid = res[p].base
               /\ Len(sessions) = res[p].n0

(* C8 witness: the second of two calls in a row has returned the session the
   first one created, untouched since, with created false. *)
C8_Witness ==
  \E p \in Procs :
    /\ Done(p, "getOrCreate") /\ ~res[p].created
    /\ res[p].rsid = res[p].base /\ res[p].base # 0
    /\ sessions[res[p].rsid] = NewSession(res[p].user)
    /\ SessionMessages(res[p].rsid) = {}
    /\ calls = 2

(* C9: two overlapping getOrCreateActiveSession calls of one user, both begun
   while the user had no in-progress session and nothing else touching the
   user's sessions meanwhile: both return, with the same session, and exactly
   one reports created. *)
C9_ConcurrentGetOrCreate ==
  \A p, q \in Procs :
    ( /\ p # q /\ justDone = p /\ proc[q].pc = "idle"
      /\ res[p].op = "getOrCreate" /\ res[q].op = "getOrCreate"
      /\ res[p].user = res[q].user
      /\ res[p].conc /\ res[q].conc
      /\ res[p].base = 0 /\ res[q].base = 0
      /\ res[p].n0 = res[q].n0 )
    => /\ res[p].out = "OK" /\ res[q].out = "OK"
       /\ res[p].rsid = res[q].rsid
       /\ res[p].created # res[q].created

(* C9 witness: of two such calls the one whose insert the index turned down
   has returned the other's session. *)
C9_Witness ==
  \E p, q \in Procs :
    /\ p # q /\ justDone = p /\ proc[q].pc = "idle"
    /\ res[p].op = "getOrCreate" /\ res[q].op = "getOrCreate"
    /\ res[p].user = res[q].user
    /\ res[p].conc /\ res[q].conc
    /\ res[p].base = 0 /\ res[q].base = 0
    /\ res[p].n0 = res[q].n0
    /\ res[p].hit /\ ~res[p].created /\ res[q].created
    /\ res[p].rsid = res[q].rsid

(* C10: with no call overlapping another: getOrCreateActiveSession for a user
   without a session creates an active one; createNewMessage on an active
   session without messages stores a user message numbered 0 and leaves the
   session waiting_for_bot; createNewMessage on a session that waits for the
   bot fails with SESSION_WAITING_FOR_BOT and stores nothing; getBotResponse
   on a waiting session holding the user message 0 and the bot message 1
   returns that bot message and leaves the session active. *)
C10_HappyPath ==
  \A p \in Procs :
    /\ (Done(p, "getOrCreate") /\ res[p].base = 0)
         => /\ res[p].out = "OK" /\ res[p].created
            /\ sessions[res[p].rsid].status = "active"
    /\ ( /\ Done(p, "create") /\ res[p].st0 = "active" /\ res[p].n0 = 0
         /\ res[p].out # "PUBLISH_ERROR" )
         => /\ res[p].out = "OK"
            /\ SessionMessages(res[p].sid) = {res[p].mid}
            /\ messages[res[p].mid].role = "student"
            /\ messages[res[p].mid].sequence_number = 0
            /\ sessions[res[p].sid].status = "waiting_for_bot"
    /\ (Done(p, "create") /\ res[p].st0 = "waiting_for_bot")
         => /\ res[p].out = "SESSION_WAITING_FOR_BOT"
            /\ Cardinality(SessionMessages(res[p].sid)) = res[p].n0
    /\ ( /\ Done(p, "bot") /\ res[p].st0 = "waiting_for_bot" /\ res[p].n0 = 2
         /\ \E a, b \in DOMAIN messages :
              /\ SessionMessages(res[p].sid) = {a, b}
              /\ messages[a].role = "student" /\ messages[a].sequence_number = 0
              /\ messages[b].role = "bot" /\ messages[b].sequence_number = 1
              /\ res[p].ref \in {0, a} )
         => /\ res[p].out = "OK"
            /\ messages[res[p].mid].role = "bot"
            /\ messages[res[p].mid].sequence_number = 1
            /\ messages[res[p].mid].session_id = res[p].sid
            /\ sessions[res[p].sid].status = "active"

(* C10 witness: the scenario has run to its end: the session was created,
   took one user message, got one bot reply, and getBotResponse has handed
   that reply out and made the session active again. *)
C10_Witness ==
  \E p \in Procs :
    /\ Done(p, "bot") /\ res[p].out = "OK" /\ res[p].st0 = "waiting_for_bot"
    /\ Cardinality(SessionMessages(res[p].sid)) = 2
    /\ messages[res[p].mid].sequence_number = 1
    /\ messages[res[p].umid].sequence_number = 0
    /\ sessions[res[p].sid] = [ user_id |-> res[p].user, status |-> "active", version |-> 3 ]

(* the latest message of a role in a session (0: none) *)
LatestOfRole(s, role) ==
  LET M == { m \in SessionMessages(s) : messages[m].role = role }
  IN IF M = {} THEN 0 ELSE Max(M)

(* the message a poll compares the bot's reply with: the one named by the
   caller if the session holds it, else the latest user message (0: none) *)
ReferenceOf(r) ==
  IF r.ref \in SessionMessages(r.sid) THEN r.ref ELSE LatestOfRole(r.sid, "student")

(* C11: getBotResponse on a session that is already active and holds a bot
   message numbered above the reference message returns that bot message
   without error, and the session stays active. *)
C11_PollOnActiveSessionIsNoOp ==
  \A p \in Procs :
    ( /\ Done(p, "bot") /\ res[p].st0 = "active"
      /\ LatestOfRole(res[p].sid, "bot") # 0
      /\ ReferenceOf(res[p]) # 0
      /\ messages[LatestOfRole(res[p].sid, "bot")].sequence_number
           > messages[ReferenceOf(res[p])].sequence_number )
    => /\ res[p].out = "OK"
       /\ res[p].mid = LatestOfRole(res[p].sid, "bot")
       /\ sessions[res[p].sid].status = "active"

(* C12: createNewMessage that reads its session as waiting_for_bot, ended,
   escalated or failed stops there with SESSION_WAITING_FOR_BOT, SESSION_ENDED,
   SESSION_ESCALATED or SESSION_FAILED respectively, and that step stores no
   message, publishes no event and leaves the sessions as they are. *)
RejectionOf ==
  [ waiting_for_bot |-> "SESSION_WAITING_FOR_BOT",
    ended           |-> "SESSION_ENDED",
    escalated       |-> "SESSION_ESCALATED",
    failed          |-> "SESSION_FAILED" ]

C12_BlockedStatusRejected ==
  [][ \A p \in Procs :
        ( /\ proc[p].pc = "cm_session" /\ proc'[p].pc # "cm_session"
          /\ proc[p].sid \in DOMAIN sessions
          /\ sessions[proc[p].sid].user_id = proc[p].user
          /\ sessions[proc[p].sid].status \in DOMAIN RejectionOf )
        => /\ proc'[p].pc = "idle"
           /\ res'[p].out = RejectionOf[sessions[proc[p].sid].status]
           /\ messages' = messages
           /\ published' = published
           /\ sessions' = sessions ]_vars

(* C12 witness: a createNewMessage call on a failed session has been turned
   down with SESSION_FAILED, the session still failed and without a message
   more than when the call began. *)
C12_Witness ==
  \E p \in Procs :
    /\ Done(p, "create") /\ res[p].st0 = "failed"
    /\ res[p].out = "SESSION_FAILED"
    /\ sessions[res[p].sid].status = "failed"
    /\ Cardinality(SessionMessages(res[p].sid)) = res[p].n0

(* C13: when the store, holding the unique (session, sequence number)
   constraint, turns down the insert of createNewMessage, the call ends there
   with MESSAGE_SEQUENCE_CONFLICT: nothing is stored or published, no session
   changes, and the insert is not tried again; the only step a call ever
   repeats is the save of a session after a version mismatch. *)
C13_SequenceConflictNotRetried ==
  [][ \A p \in Procs :
        /\ ( /\ proc[p].pc = "cm_insert" /\ proc'[p].pc # "cm_insert"
             /\ uniqueSessionSequence
             /\ \E m \in SessionMessages(proc[p].sid) :
                  messages[m].sequence_number = proc[p].seq )
           => /\ proc'[p].pc = "idle"
              /\ res'[p].out = "MESSAGE_SEQUENCE_CONFLICT"
              /\ messages' = messages
              /\ published' = published
              /\ sessions' = sessions
        /\ ( /\ proc[p].pc # "idle" /\ proc'[p].pc # "idle"
             /\ proc'[p].attempt > proc[p].attempt )
           => /\ proc[p].pc = "mk_save" /\ proc'[p].pc = "mk_find"
              /\ optimisticLockOnSave
              /\ sessions[proc[p].sid].version # proc[p].ent.version
              /\ sessions' = sessions ]_vars

(* C13 witness: one of two overlapping createNewMessage calls has failed
   with MESSAGE_SEQUENCE_CONFLICT, and the session holds a single message. *)
C13_Witness ==
  \E p \in Procs :
    /\ Done(p, "create") /\ res[p].out = "MESSAGE_SEQUENCE_CONFLICT"
    /\ res[p].conc /\ uniqueSessionSequence
    /\ Cardinality(SessionMessages(res[p].sid)) = 1

(* C14: a createNewMessage call that returns a message leaves its session
   waiting_for_bot and has emitted one event with the user id, session id and
   id of that message; every event emitted so far names a stored user message
   of that user and session, and no message has more than one event. *)
C14_OneEventPerStoredMessage ==
  /\ \A p \in Procs :
       (Done(p, "create") /\ res[p].out = "OK")
       => /\ sessions[res[p].sid].status = "waiting_for_bot"
          /\ res[p].mid \in DOMAIN messages
          /\ messages[res[p].mid].role = "student"
          /\ messages[res[p].mid].session_id = res[p].sid
          /\ CopiesIn(Event(res[p].user, res[p].sid, res[p].mid), published) = 1
  /\ \A e \in BagToSet(published) :
       /\ e.messageId \in DOMAIN messages
       /\ messages[e.messageId].role = "student"
       /\ messages[e.messageId].session_id = e.sessionId
       /\ messages[e.messageId].user_id = e.userId
       /\ CopiesIn(e, published) <= 1
  /\ \A e1, e2 \in BagToSet(published) : e1.messageId = e2.messageId => e1 = e2

(* C14 witness: a createNewMessage call has returned its message, its event
   being the only one emitted so far. *)
C14_Witness ==
  \E p \in Procs :
    /\ Done(p, "create") /\ res[p].out = "OK"
    /\ published = SetToBag({ Event(res[p].user, res[p].sid, res[p].mid) })
    /\ sessions[res[p].sid].status = "waiting_for_bot"

(* C15: when the publish of createNewMessage fails, the stored message stays
   and the call carries on: it goes on to move the session to
   waiting_for_bot rather than end with the publish error. *)
C15_PublishFailureTolerated ==
  [][ \A p \in Procs :
        ( /\ proc[p].pc = "cm_publish" /\ proc'[p].pc # "cm_publish"
          /\ published' = published )
        => /\ messages' = messages
           /\ proc'[p].pc = "mk_find"
           /\ proc'[p].target = "waiting_for_bot" ]_vars

(* C16: createNewMessage emits the event for the bot worker only once the
   session is recorded as waiting_for_bot. *)
C16_FlipBeforeEmit ==
  [][ \A p \in Procs :
        ( /\ proc[p].pc = "cm_publish" /\ proc'[p].pc # "cm_publish"
          /\ published' # published )
        => /\ proc[p].mid \in DOMAIN messages
           /\ sessions[proc[p].sid].status = "waiting_for_bot" ]_vars

(* C17: a call of markWaitingForBot, markActive, markEscalated,
   markCloseSession, createNewMessage, retryFailedSession or getBotResponse
   whose user does not own the named session ends at its session lookup with
   the outcome it has for a session that does not exist (null, or
   SESSION_NOT_FOUND for createNewMessage and retryFailedSession), whether or
   not another user has a session of that id, and changes no session, no
   message and no event. *)
Owns(u, s) == s \in DOMAIN sessions /\ sessions[s].user_id = u

NotFoundOutcome(op) == IF op \in {"create", "retry"} THEN "SESSION_NOT_FOUND" ELSE "NULL"

C17_NotOwnedIsNotFound ==
  [][ \A p \in Procs :
        ( /\ \/ proc[p].pc = "mk_find" /\ proc[p].op = "mark"
             \/ proc[p].pc \in {"cm_session", "br_session", "rt_session"}
          /\ proc'[p].pc # proc[p].pc
          /\ ~Owns(proc[p].user, proc[p].sid) )
        => /\ proc'[p].pc = "idle"
           /\ res'[p].out = NotFoundOutcome(proc[p].op)
           /\ res'[p].mid = 0
           /\ sessions' = sessions
           /\ messages' = messages
           /\ published' = published ]_vars

(* C17 witness: createNewMessage on another user's active session has failed
   with SESSION_NOT_FOUND and the session is as it was. *)
C17_Witness ==
  \E p \in Procs :
    /\ Done(p, "create") /\ res[p].out = "SESSION_NOT_FOUND"
    /\ res[p].sid \in DOMAIN sessions
    /\ sessions[res[p].sid].user_id # res[p].user
    /\ sessions[res[p].sid] = NewSession(sessions[res[p].sid].user_id)
    /\ SessionMessages(res[p].sid) = {}

(* C18: with no call overlapping another and the publish going through,
   retryFailedSession on a failed session returns the message it stored: the
   one write its markActive makes takes the session from failed to active,
   the message is a user message numbered one above the session's previous
   messages, and the session ends waiting_for_bot with one user message more
   than before. *)
C18_RetryFailedSessionSucceeds ==
  /\ [](\A p \in Procs :
          (Done(p, "retry") /\ res[p].st0 = "failed" /\ res[p].out # "PUBLISH_ERROR")
          => /\ res[p].out = "OK"
             /\ res[p].mid \in SessionMessages(res[p].sid)
             /\ messages[res[p].mid].role = "student"
             /\ \A m \in SessionMessages(res[p].sid) \ {res[p].mid} :
                  messages[m].sequence_number < messages[res[p].mid].sequence_number
             /\ \E m \in SessionMessages(res[p].sid) :
                  messages[m].sequence_number + 1 = messages[res[p].mid].sequence_number
             /\ UserMessageCount(res[p].sid) = res[p].base + 1
             /\ Cardinality(SessionMessages(res[p].sid)) = res[p].n0 + 1
             /\ sessions[res[p].sid].status = "waiting_for_bot")
  /\ [][ \A p \in Procs :
           ( /\ proc[p].op = "retry" /\ proc[p].pc = "mk_save"
             /\ proc[p].target = "active" /\ proc'[p].pc # "mk_save" )
           => /\ sessions[proc[p].sid].status = "failed"
              /\ sessions'[proc[p].sid].status = "active"
              /\ proc'[p].pc = "cm_session" ]_vars

(* C18 witness: retryFailedSession on a failed session has returned its
   message and the session waits for the bot. *)
C18_Witness ==
  \E p \in Procs :
    /\ Done(p, "retry") /\ res[p].st0 = "failed" /\ res[p].out = "OK"
    /\ res[p].sid \in everFailed
    /\ sessions[res[p].sid].status = "waiting_for_bot"
    /\ UserMessageCount(res[p].sid) = 2

(* C19: retryFailedSession that finds its session, owned by the caller, in a
   status other than failed ends there with SESSION_NOT_FAILED; no message is
   stored, no event published and no session changed. *)
C19_RetryOnlyWhenFailed ==
  [][ \A p \in Procs :
        ( /\ proc[p].pc = "rt_session" /\ proc'[p].pc # "rt_session"
          /\ Owns(proc[p].user, proc[p].sid)
          /\ sessions[proc[p].sid].status \in {"active", "waiting_for_bot", "ended", "escalated"} )
        => /\ proc'[p].pc = "idle"
           /\ res'[p].out = "SESSION_NOT_FAILED"
           /\ messages' = messages
           /\ published' = published
           /\ sessions' = sessions ]_vars

(* C19 witness: retryFailedSession on a session that waits for the bot has
   failed with SESSION_NOT_FAILED and the session still waits. *)
C19_Witness ==
  \E p \in Procs :
    /\ Done(p, "retry") /\ res[p].out = "SESSION_NOT_FAILED"
    /\ res[p].st0 = "waiting_for_bot"
    /\ sessions[res[p].sid].status = "waiting_for_bot"
    /\ Cardinality(SessionMessages(res[p].sid)) = res[p].n0

(* C20: getBotResponse returns null, raising nothing and changing no session
   and no message, at the step where it finds that the session is absent or
   not the caller's, or reads its status as failed, ended or escalated, or
   finds no user message, or finds no bot message in it.  (The status is the
   one the call reads at its own check: a poll turned away from a failed
   session never reaches markActive, whatever messages the session holds.) *)
ReturnsNoReply(p) ==
  /\ proc'[p].pc = "idle"
  /\ res'[p].out = "NULL"
  /\ res'[p].mid = 0
  /\ sessions' = sessions
  /\ messages' = messages

C20_NoReplyLeavesSessionAlone ==
  [][ \A p \in Procs :
        /\ ( /\ proc[p].pc = "br_session" /\ proc'[p].pc # "br_session"
             /\ \/ ~Owns(proc[p].user, proc[p].sid)
                \/ sessions[proc[p].sid].status \in {"failed", "ended", "escalated"} )
           => ReturnsNoReply(p)
        /\ ( /\ proc[p].pc = "br_user" /\ proc'[p].pc # "br_user"
             /\ LatestOfRole(proc[p].sid, "student") = 0 )
           => ReturnsNoReply(p)
        /\ ( /\ proc[p].pc = "br_bot" /\ proc'[p].pc # "br_bot"
             /\ \/ LatestOfRole(proc[p].sid, "bot") = 0
                \/ LatestOfRole(proc[p].sid, "student") = 0 )
           => ReturnsNoReply(p)
        /\ ( /\ proc[p].pc \in {"br_session", "br_byid", "br_user", "br_bot"}
             /\ proc'[p].pc # proc[p].pc )
           => sessions' = sessions /\ messages' = messages ]_vars

(* C20 witness: a poll of a failed session has returned null and the session
   is still failed. *)
C20_Witness ==
  \E p \in Procs :
    /\ Done(p, "bot") /\ res[p].out = "NULL"
    /\ res[p].st0 = "failed"
    /\ sessions[res[p].sid].status = "failed"
    /\ LatestOfRole(res[p].sid, "student") # 0

(* C21: with no call overlapping another, markCloseSession on the caller's
   session in status active, waiting_for_bot or failed returns the session,
   now ended; on a session the caller does not have it returns null; and
   getOrCreateActiveSession for a user who, when the call begins, has an
   ended session and no session in progress creates a session with a new id,
   active, and reports created. *)
C21_CloseThenNewSession ==
  \A p \in Procs :
    /\ ( /\ Done(p, "mark") /\ res[p].target = "ended"
         /\ res[p].st0 \in {"active", "waiting_for_bot", "failed"} )
       => /\ res[p].out = "OK"
          /\ res[p].rsid = res[p].sid
          /\ sessions[res[p].sid].status = "ended"
    /\ (Done(p, "mark") /\ res[p].target = "ended" /\ res[p].st0 = "-")
       => res[p].out = "NULL" /\ res[p].rsid = 0
    /\ ( /\ Done(p, "getOrCreate")
         /\ \E s \in 1..res[p].n0 :
              sessions[s].user_id = res[p].user /\ sessions[s].status = "ended"
         /\ \A s \in 1..res[p].n0 :
              sessions[s].user_id = res[p].user
              => sessions[s].status \notin {"active", "waiting_for_bot", "failed"} )
       => /\ res[p].out = "OK"
          /\ res[p].created
          /\ res[p].rsid = res[p].n0 + 1
          /\ res[p].rsid = Len(sessions)
          /\ sessions[res[p].rsid] = NewSession(res[p].user)

(* C21 witness: a user's first session was closed and the next
   getOrCreateActiveSession has created a second one. *)
C21_Witness ==
  \E p \in Procs :
    /\ Done(p, "getOrCreate") /\ res[p].created /\ res[p].rsid = 2
    /\ sessions[1].user_id = res[p].user /\ sessions[1].status = "ended"
    /\ sessions[2].status = "active"

(* the message getBotResponse would fall back to: the most recent
   user-authored message of the session *)
LatestUserMessage(u, s) == findLatestUserMessageBySession(u, s)

(* C28: when getBotResponse has determined its reference message, the
   reference is a user-authored message of the session: the message named by
   latestUserMessageId when that id resolves to a message of this session
   owned by the caller, and the most recent user-authored message otherwise. *)
C28_ReferenceIsUserMessage ==
  \A p \in Procs :
    (proc[p].op = "bot" /\ proc[p].pc = "br_bot")
    => /\ messages[proc[p].umid].role = "student"
       /\ messages[proc[p].umid].session_id = proc[p].sid
       /\ IF /\ proc[p].ref \in DOMAIN messages
             /\ messages[proc[p].ref].session_id = proc[p].sid
             /\ messages[proc[p].ref].user_id = proc[p].user
            THEN proc[p].umid = proc[p].ref
            ELSE proc[p].umid = LatestUserMessage(proc[p].user, proc[p].sid)

(* C29: with no call overlapping another, a mark* call for target `to` on a
   session the caller owns whose status `from` allows `to` passes the check
   without writing, its save sets the status to `to`, adds one to the version
   and changes no other field, no other session, no message and no event, and
   the call returns the session. *)
C29_AllowedTransitionOnlyChangesStatus ==
  [][ \A p \in Procs :
        LET c == proc[p] IN
        /\ ( /\ c.op = "mark" /\ c.pc = "mk_find" /\ proc'[p].pc # "mk_find"
             /\ Owns(c.user, c.sid)
             /\ c.target \in TransitionTable[sessions[c.sid].status] )
           => /\ proc'[p].pc = "mk_save"
              /\ sessions' = sessions
        /\ (c.op = "mark" /\ c.pc = "mk_save" /\ proc'[p].pc # "mk_save")
           => /\ sessions' = [ sessions EXCEPT ![c.sid] =
                                 [ user_id |-> sessions[c.sid].user_id,
                                   status  |-> c.target,
                                   version |-> sessions[c.sid].version + 1 ] ]
              /\ messages' = messages
              /\ published' = published
              /\ pending' = pending
              /\ res'[p].out = "OK" /\ res'[p].rsid = c.sid
    ]_vars

(* C29 witness: a pair of the table has been exercised; here a failed
   session has just been escalated, and only its status and version moved. *)
C29_Witness ==
  \E p \in Procs :
    /\ Done(p, "mark") /\ res[p].out = "OK"
    /\ res[p].st0 = "failed" /\ res[p].target = "escalated"
    /\ sessions[res[p].sid].status = "escalated"
    /\ sessions[res[p].sid].user_id = res[p].user

(* C25: a transition's write is applied only when the stored version of the
   session equals the version the call read, so a write based on a stale read
   is never applied (no lost update). *)
C25_WriteOnlyAtVersionRead ==
  [][ \A p \in Procs :
        ( /\ proc[p].pc = "mk_save" /\ proc'[p] # proc[p]
          /\ sessions'[proc[p].sid] # sessions[proc[p].sid] )
        => sessions[proc[p].sid].version = proc[p].ent.version ]_vars

(* C30: the service has no timeout: no step of a service call moves a session
   to failed (only the external worker does); a getBotResponse poll writes a
   session only when a bot message numbered above its reference message is
   stored; and a session leaves waiting_for_bot only by the save of a
   transition call or by the external worker. *)
C30_NoTimeoutPath ==
  [][ /\ \A s \in DOMAIN sessions :
           (sessions'[s].status = "failed" /\ sessions[s].status # "failed")
           => proc' = proc
      /\ \A p \in Procs :
           (proc[p].op = "bot" /\ proc'[p] # proc[p] /\ sessions' # sessions)
           => /\ proc[p].pc = "mk_save"
              /\ proc[p].mid \in DOMAIN messages
              /\ messages[proc[p].mid].role = "bot"
              /\ messages[proc[p].mid].session_id = proc[p].sid
              /\ messages[proc[p].mid].sequence_number
                   > messages[proc[p].umid].sequence_number
      /\ \A s \in DOMAIN sessions :
           (sessions[s].status = "waiting_for_bot" /\ sessions'[s].status # "waiting_for_bot")
           => \/ proc' = proc
              \/ \E p \in Procs :
                   /\ proc[p].pc = "mk_save" /\ proc'[p] # proc[p]
                   /\ proc[p].sid = s
                   /\ sessions'[s].status = proc[p].target
                   /\ proc[p].target \in {"active", "escalated", "ended"}
    ]_vars

(* C30 witness: a session is waiting for a reply the worker has not stored, a
   poll has just returned no reply, and the session is still waiting. *)
C30_Witness ==
  \E p \in Procs :
    /\ Done(p, "bot") /\ res[p].out = "NULL"
    /\ res[p].st0 = "waiting_for_bot"
    /\ sessions[res[p].sid].status = "waiting_for_bot"
    /\ \A m \in SessionMessages(res[p].sid) : messages[m].role = "student"
    /\ SessionMessages(res[p].sid) \cap pending # {}

(* the save of p's transition call is refused with a version conflict *)
VersionConflict(p) ==
  /\ proc[p].pc = "mk_save"
  /\ optimisticLockOnSave
  /\ sessions[proc[p].sid].version # proc[p].ent.version

(* C26: a mark* call whose save hits a version conflict on its first or second
   attempt starts another attempt without writing, so there are at most three
   attempts; every attempt reads the session again and checks the table
   against the status it reads: it returns null when the caller has no such
   session, fails with INVALID_STATUS_TRANSITION without writing when the
   target is not allowed from that status, and otherwise goes on to save
   against the version just read. *)
C26_RetryRereadsAndRevalidates ==
  [][ \A p \in Procs :
        LET c == proc[p] IN
        /\ c.op = "mark" => c.attempt + 1 <= 3
        /\ (c.op = "mark" /\ VersionConflict(p) /\ proc'[p] # c /\ c.attempt + 1 < 3)
           => /\ proc'[p].pc = "mk_find"
              /\ proc'[p].attempt = c.attempt + 1
              /\ proc'[p].ent = NoEnt
              /\ sessions' = sessions
        /\ (c.op = "mark" /\ c.pc = "mk_find" /\ proc'[p] # c)
           => /\ sessions' = sessions
              /\ IF ~Owns(c.user, c.sid)
                   THEN proc'[p].pc = "idle" /\ res'[p].out = "NULL"
                   ELSE IF c.target \notin TransitionTable[sessions[c.sid].status]
                          THEN /\ proc'[p].pc = "idle"
                               /\ res'[p].out = "INVALID_STATUS_TRANSITION"
                          ELSE /\ proc'[p].pc = "mk_save"
                               /\ proc'[p].attempt = c.attempt
                               /\ proc'[p].ent.version = sessions[c.sid].version
    ]_vars

(* C26 witness: a call that found its target allowed was refused by a version
   conflict, and its next attempt is about to read a session that a concurrent
   writer has moved to a status from which the target is not allowed. *)
C26_Witness ==
  \E p \in Procs :
    /\ proc[p].op = "mark" /\ proc[p].pc = "mk_find" /\ proc[p].attempt > 0
    /\ proc[p].target \in TransitionTable[proc[p].st0]
    /\ Owns(proc[p].user, proc[p].sid)
    /\ proc[p].target \notin TransitionTable[sessions[proc[p].sid].status]

(* C27: a mark* call makes at most maxRetries (3) saves: each save ends the
   call or starts the next of at most three attempts; a call whose third save
   is also refused with a version conflict ends with the conflict thrown to
   its caller, returns no session, and has not modified the session. *)
C27_ConflictSurfacesAfterMaxRetries ==
  [][ \A p \in Procs :
        LET c == proc[p] IN
        (c.op = "mark" /\ c.pc = "mk_save" /\ proc'[p] # c)
        => /\ \/ proc'[p].pc = "idle"
              \/ proc'[p].attempt = c.attempt + 1 /\ c.attempt + 1 < maxRetries
           /\ (VersionConflict(p) /\ c.attempt + 1 = 3)
              => /\ proc'[p].pc = "idle"
                 /\ res'[p].out = "OptimisticLockVersionMismatchError"
                 /\ res'[p].rsid = 0
                 /\ sessions' = sessions
    ]_vars

(* C27 witness: a call has ended with the conflict after three refused saves,
   the session having been written three times by others since the call
   began. *)
C27_Witness ==
  \E p \in Procs :
    /\ Done(p, "mark") /\ res[p].out = "OptimisticLockVersionMismatchError"
    /\ optimisticLockOnSave
    /\ sessions[res[p].sid].version >= 4

(* the messages a listing of session s for user u may show *)
Visible(u, s) ==
  { m \in DOMAIN messages :
      /\ messages[m].session_id = s
      /\ messages[m].user_id = u
      /\ ~messages[m].is_deleted }

(* a sequence of message ids is in descending (created_at, message_id) order *)
NewestFirst(q) ==
  \A i, j \in DOMAIN q :
    i < j => \/ messages[q[i]].created_at > messages[q[j]].created_at
             \/ /\ messages[q[i]].created_at = messages[q[j]].created_at
                /\ q[i] > q[j]

(* C22: getSessionMessagesByUser on a session of the caller returns messages
   of the session that are not soft-deleted, newest first, a hasMore flag, and
   the session's status as stored at the time of the call. *)
C22_ListingCarriesSessionStatus ==
  \A p \in Procs :
    (Done(p, "list") /\ res[p].out = "OK" /\ Owns(res[p].user, res[p].sid))
    => /\ \A i \in DOMAIN res[p].page : res[p].page[i] \in Visible(res[p].user, res[p].sid)
       /\ NewestFirst(res[p].page)
       /\ res[p].hasMore \in BOOLEAN
       /\ res[p].sessionStatus = sessions[res[p].sid].status

(* C23: with no insert in between, a page holds at most limit messages of the
   session that are not soft-deleted, in descending (created_at, message_id)
   order; hasMore holds exactly when a message that is not soft-deleted and
   older than the last of the page exists, and then nextCursor is the id of the
   last message of the page, otherwise it is absent; the pages from the first
   one along nextCursor to the page without hasMore hold every message of the
   session that is not soft-deleted exactly once. *)
C23_CursorPagination ==
  \A p \in Procs :
    (Done(p, "list") /\ res[p].out = "OK")
    => LET page == res[p].page
           V == Visible(res[p].user, res[p].sid)
           last == page[Len(page)]
           older == { m \in V :
                        \/ messages[m].created_at < messages[last].created_at
                        \/ /\ messages[m].created_at = messages[last].created_at
                           /\ m < last }
       IN /\ Len(page) <= res[p].limit
          /\ \A i \in DOMAIN page : page[i] \in V
          /\ NewestFirst(page)
          /\ res[p].hasMore <=> (page # << >> /\ older # {})
          /\ res[p].nextCursor = IF res[p].hasMore THEN last ELSE 0
          /\ ~res[p].hasMore
             => /\ Len(res[p].acc) = Cardinality(V)
                /\ { res[p].acc[i] : i \in DOMAIN res[p].acc } = V

(* C23 witness: two pages of one message each have been read along the
   cursor, the two messages bear the same creation time, a soft-deleted
   message of the session was left out, and the last page reports no more. *)
C23_Witness ==
  \E p \in Procs :
    /\ Done(p, "list") /\ res[p].out = "OK" /\ ~res[p].hasMore
    /\ res[p].limit = 1 /\ res[p].ref # 0
    /\ Len(res[p].acc) = 2
    /\ messages[res[p].acc[1]].created_at = messages[res[p].acc[2]].created_at
    /\ \E m \in DOMAIN messages :
         messages[m].session_id = res[p].sid /\ messages[m].is_deleted

(* the failures the specification calls domain errors *)
DomainErrors ==
  { "SESSION_NOT_FOUND", "INVALID_STATUS_TRANSITION", "SESSION_WAITING_FOR_BOT",
    "SESSION_ENDED", "SESSION_ESCALATED", "SESSION_FAILED", "SESSION_NOT_ACTIVE",
    "MESSAGE_SEQUENCE_CONFLICT", "SESSION_NOT_FAILED" }

(* C24: the response to a call that failed carries a correlation id; for a
   domain error it carries the error's own status, code and message; for a
   decryption failure and for any other failure it is the generic one: status
   500, code INTERNAL_SERVER_ERROR, message "Internal Server Error". *)
C24_UnexpectedFailuresAreOpaque ==
  \A p \in Procs :
    (justDone = p /\ res[p].out \notin {"OK", "NULL"})
    => LET err == Thrown(res[p].out)
           response == errorMiddleware(err)
       IN /\ response.errorId # ""
          /\ IF res[p].out \in DomainErrors
               THEN /\ response.statusCode = err.statusCode
                    /\ response.code = res[p].out
                    /\ response.message = err.message
               ELSE /\ response.statusCode = 500
                    /\ response.code = "INTERNAL_SERVER_ERROR"
                    /\ response.message = "Internal Server Error"

(* C31: the page size of the message history is always in 1..50: a limit
   value that is the numeral of an integer in 1..50 (or begins with one, as
   parseInt reads it) is used as is, a missing, empty, non-numeric,
   non-positive or greater-than-50 value gives the default 10, not 50, and a
   page never holds more messages than that limit. *)
C31_PageSizeWithinBounds ==
  \A p \in Procs :
    LET calls_ == IF proc[p].op = "list" THEN {proc[p]} ELSE
                  IF res[p].op = "list" THEN {res[p]} ELSE {}
    IN \A c \in calls_ :
         /\ c.limit \in 1..50
         /\ \A n \in 1..50 :
              c.limitParam \in { Numeral(n), << " " >> \o Numeral(n), Numeral(n) \o << "x" >> }
              => c.limit = n
         /\ c.limitParam \in { << "undefined" >>, << >>, << "a", "b", "c" >>, << "-", "1" >>,
                               << "0" >>, << "5", "1" >> }
            => c.limit = 10
         /\ (Done(p, "list") /\ res[p].out = "OK") => Len(res[p].page) <= c.limit

(* C31 witness: a page was asked for with limit=51 and has been served with
   the default page size 10. *)
C31_Witness ==
  \E p \in Procs :
    /\ Done(p, "list") /\ res[p].out = "OK"
    /\ res[p].limitParam = << "5", "1" >> /\ res[p].limit = 10
    /\ res[p].page # << >>

(* C32: when a getBotResponse call has moved a session from waiting_for_bot to
   active, the latest bot message of the session is numbered above the
   session's most recent user message, whichever message the caller named as
   latestUserMessageId. *)
C32_ActiveMeansAnswered ==
  \A p \in Procs :
    ( /\ Done(p, "bot") /\ res[p].out = "OK"
      /\ res[p].st0 = "waiting_for_bot"
      /\ sessions[res[p].sid].status = "active" )
    => /\ LatestOfRole(res[p].sid, "bot") # 0
       /\ messages[LatestOfRole(res[p].sid, "bot")].sequence_number
            > messages[LatestOfRole(res[p].sid, "student")].sequence_number

(* C33 as claimed, for calls that no other call overlaps: a createNewMessage
   call that ends with an error leaves no new message in the session and the
   session's status as it was when the call began; a call that returns a
   message has stored it and the session is waiting_for_bot. *)
C33_AllOrNothing ==
  \A p \in Procs :
    (Done(p, "create") /\ overlaps = 0)
    => IF res[p].out = "OK"
         THEN /\ res[p].mid \in SessionMessages(res[p].sid)
              /\ sessions[res[p].sid].status = "waiting_for_bot"
         ELSE /\ Cardinality(SessionMessages(res[p].sid)) = res[p].n0
              /\ StatusSeen(res[p].user, res[p].sid) = res[p].st0

(* C33 amended: createNewMessage writes in two places and takes nothing back.
   Before the insert it writes nothing; the insert either stores exactly one
   user message of the caller in the session or fails with
   MESSAGE_SEQUENCE_CONFLICT and stores nothing; after the insert the call
   never changes a message, so a call that fails in the publish or in
   markWaitingForBot leaves its message stored, and such a failure writes no
   session; a call that returns a message returns the one it stored. *)
C33_NoRollback ==
  [][ \A p \in Procs :
        LET c == proc[p] IN
        (c.op = "create" /\ proc'[p].pc # c.pc)
        => /\ c.pc \in {"cm_session", "cm_latest"}
              => messages' = messages /\ sessions' = sessions
           /\ c.pc = "cm_insert"
              => /\ sessions' = sessions
                 /\ \/ /\ messages' = messages
                       /\ proc'[p].pc = "idle"
                       /\ res'[p].out = "MESSAGE_SEQUENCE_CONFLICT"
                    \/ /\ Len(messages') = Len(messages) + 1
                       /\ SubSeq(messages', 1, Len(messages)) = messages
                       /\ proc'[p].mid = Len(messages')
                       /\ messages'[proc'[p].mid].role = "student"
                       /\ messages'[proc'[p].mid].session_id = c.sid
                       /\ messages'[proc'[p].mid].user_id = c.user
           /\ c.pc \in {"cm_publish", "mk_find", "mk_save"}
              => /\ messages' = messages
                 /\ c.mid \in SessionMessages(c.sid)
                 /\ proc'[p].pc = "idle"
                    => IF res'[p].out = "OK"
                         THEN res'[p].mid = c.mid
                         ELSE sessions' = sessions
    ]_vars

(* C33 witness: a createNewMessage call has failed in the publish and the
   message it stored is still in the session, which is still active. *)
C33_Witness ==
  \E p \in Procs :
    /\ Done(p, "create") /\ res[p].out = "PUBLISH_ERROR"
    /\ Cardinality(SessionMessages(res[p].sid)) = res[p].n0 + 1
    /\ \E m \in SessionMessages(res[p].sid) :
         messages[m].role = "student" /\ ~messages[m].is_deleted
    /\ sessions[res[p].sid].status = "active"

(* C34: a session that is ended or escalated never gains a user message: no
   step stores a user message in a session whose stored status is ended or
   escalated, whatever calls run concurrently. *)
C34_NoUserMessageAfterTerminal ==
  [][ Len(messages') > Len(messages)
      => LET new == messages'[Len(messages')] IN
         new.role = "student" => sessions[new.session_id].status \notin Terminal
    ]_vars

(* C35 as claimed: a retryFailedSession call that ends with an error leaves
   the session in the status it had when the call began; in particular a call
   that fails after it made the session active has put it back to failed. *)
C35_FailedRetryRestoresStatus ==
  \A p \in Procs :
    (Done(p, "retry") /\ res[p].out # "OK")
    => StatusSeen(res[p].user, res[p].sid) = res[p].st0

(* C35 amended: with no call overlapping another, a retryFailedSession call
   that fails with SESSION_NOT_FOUND or SESSION_NOT_FAILED has written
   nothing, and a call that fails later, after markActive, leaves the session
   active: nothing puts it back to failed. *)
C35_FailedRetryLeavesSessionActive ==
  \A p \in Procs :
    (Done(p, "retry") /\ res[p].out # "OK")
    => IF res[p].out \in {"SESSION_NOT_FOUND", "SESSION_NOT_FAILED"}
         THEN /\ StatusSeen(res[p].user, res[p].sid) = res[p].st0
              /\ res[p].st0 # "failed"
              /\ Cardinality(SessionMessages(res[p].sid)) = res[p].n0
         ELSE /\ res[p].st0 = "failed"
              /\ sessions[res[p].sid].status = "active"

(* C35 witness: a retry of a failed session made it active, stored its
   message and then failed in the publish; the session is active. *)
C35_Witness ==
  \E p \in Procs :
    /\ Done(p, "retry") /\ res[p].out = "PUBLISH_ERROR"
    /\ res[p].st0 = "failed"
    /\ sessions[res[p].sid].status = "active"
    /\ Cardinality(SessionMessages(res[p].sid)) = res[p].n0 + 1

(* C36: when two retryFailedSession calls on the same failed session overlap
   and both have ended, exactly one of them has stored a user message and the
   other has failed with a domain error; the session holds exactly one user
   message more than before and is waiting_for_bot as long as the worker has
   not handled that message.  Calls whose publish failed are left aside, and
   the store enforces both the sequence index and the version check. *)
C36_ConcurrentRetryStoresOneMessage ==
  ( /\ justDone \in Procs
    /\ \A p \in Procs : proc[p].pc = "idle" /\ res[p].op = "retry"
                        /\ res[p].st0 = "failed" /\ res[p].user = "u1" /\ res[p].sid = 1
                        /\ res[p].out # "PUBLISH_ERROR"
    /\ uniqueSessionSequence /\ optimisticLockOnSave
    /\ calls = 2 /\ overlaps = 1 )
  => /\ Cardinality({ p \in Procs : res[p].out = "OK" }) = 1
     /\ \A p \in Procs : res[p].out # "OK" => res[p].out \in DomainErrors
     /\ UserMessageCount(1) = res["p1"].base + 1
     /\ (\E m \in pending : messages[m].session_id = 1)
        => sessions[1].status = "waiting_for_bot"

(* C37: when createNewMessage has ended on a session that was active and whose
   most recent message had been soft-deleted, the call has succeeded and the
   message it stored bears a sequence number greater than that of every other
   message of the session, soft-deleted ones included.  Calls whose publish
   failed are left aside. *)
C37_SoftDeleteKeepsNumbering ==
  \A p \in Procs :
    LET Old == { m \in DOMAIN messages :
                   /\ messages[m].session_id = res[p].sid
                   /\ ~(res[p].out = "OK" /\ m = res[p].mid) }
    IN ( /\ Done(p, "create") /\ res[p].st0 = "active"
         /\ res[p].out # "PUBLISH_ERROR"
         /\ Old # {} /\ messages[Max(Old)].is_deleted )
       => /\ res[p].out = "OK"
          /\ \A m \in Old : messages[res[p].mid].sequence_number
                              > messages[m].sequence_number

(* C38: at the moment getOrCreateActiveSession returns a session, that session
   is owned by the requesting user and its status is active, waiting_for_bot
   or failed, never ended or escalated; a session the call created is active. *)
C38_ReturnsOwnInProgressSession ==
  \A p \in Procs :
    (Done(p, "getOrCreate") /\ res[p].out = "OK")
    => /\ res[p].rsid \in DOMAIN sessions
       /\ sessions[res[p].rsid].user_id = res[p].user
       /\ sessions[res[p].rsid].status \in {"active", "waiting_for_bot", "failed"}
       /\ res[p].created => sessions[res[p].rsid].status = "active"

(* C38 witness: a call returns the caller's in-progress session, found and not
   created, while a more recent in-progress session of another user exists. *)
C38_Witness ==
  \E p \in Procs :
    /\ Done(p, "getOrCreate") /\ res[p].out = "OK" /\ ~res[p].created
    /\ \E s \in DOMAIN sessions :
         /\ s > res[p].rsid
         /\ sessions[s].user_id # res[p].user
         /\ sessions[s].status \in InProgress

(* C39: with the service's operations alone, a session that is waiting_for_bot
   holds at least one user message, and its most recent user message is
   numbered above every bot message that getBotResponse has returned for the
   session. *)
C39_WaitingHasNewerUserMessage ==
  \A s \in DOMAIN sessions :
    sessions[s].status = "waiting_for_bot"
    => /\ LatestOfRole(s, "student") # 0
       /\ \A p \in Procs :
            ( /\ res[p].op = "bot" /\ res[p].out = "OK" /\ res[p].sid = s
              /\ res[p].mid \in DOMAIN messages )
            => messages[LatestOfRole(s, "student")].sequence_number
                 > messages[res[p].mid].sequence_number

(* C40: no step decreases a session's version.  The step of a mark* call that
   ends it successfully has written the target status and raised the version
   of its session by exactly one, leaving every other session alone; every
   other step of a mark* call, among them the ones that end it on an invalid
   transition, a session not found or a version conflict, leaves all sessions
   unchanged. *)
C40_VersionCountsStatusWrites ==
  [][ /\ \A s \in DOMAIN sessions :
           s \in DOMAIN sessions' /\ sessions'[s].version >= sessions[s].version
      /\ \A p \in Procs :
           (proc[p].op = "mark" /\ proc'[p].pc # proc[p].pc)
           => IF proc'[p].pc = "idle" /\ res'[p].out = "OK"
                THEN sessions' = [ sessions EXCEPT
                                     ![proc[p].sid].status = proc[p].target,
                                     ![proc[p].sid].version = @ + 1 ]
                ELSE sessions' = sessions ]_vars

(* C40 witness: a mark* call has ended on a version conflict after its retries,
   and the session's version is above the one it had at the start, raised by
   the other writers only. *)
C40_Witness ==
  \E p \in Procs :
    /\ Done(p, "mark") /\ res[p].out = "OptimisticLockVersionMismatchError"
    /\ sessions[res[p].sid].version = MaxVersion

====
